---- MODULE Spec2Model ----
(***************************************************************************)
(* Model of the comparable-sales, tax-benefit and rent-regulation core of  *)
(* cre-public-data-mcp.                                                     *)
(*                                                                         *)
(* Representation of JavaScript values:                                    *)
(*   - a string is a sequence of one-character strings, so that           *)
(*     toUpperCase, includes, startsWith, charAt, padStart and            *)
(*     replace(/^0+/, "") are computed and not assumed;                   *)
(*   - a value of type `number | null` is a tagged record: Num(n), Null   *)
(*     or NaN (parseInt of a non-numeric text);                            *)
(*   - a field that the code always coerces with `|| 0` is an integer.    *)
(* Math.round(k * min / max) is computed in exact arithmetic (round half  *)
(* up); IEEE-754 rounding error is not modelled.                          *)
(***************************************************************************)
EXTENDS Integers, Sequences, FiniteSets, TLC

VARIABLES
    \* calculateSimilarityScore applied to drawn inputs
    spc, sSubject, sComp, sSame, sAdj, sScore,
    \* calculateRentInfo applied to drawn inputs
    rpc, rParams, rInfo,
    \* getTaxBenefitsByBBL: the caller's position, the two registry queries and
    \* their responses; issued and arrival are history variables
    tpc, tArgs, exState, abState, exOutcome, abOutcome, exemptions, abatements,
    issued, arrival, taxResult,
    \* searchComps: the handler's position and locals (limit, boroughCode,
    \* subject, subjectNeighborhood, where, sales, the loop index i, plutoData,
    \* comps), its return value, and two history variables: fetched (what
    \* happened to each sale row) and failedAt (the call whose exception ended
    \* the handler)
    pc, input, limit, boroughCode, subject, subjectNeighborhood, where, sales, i,
    plutoData, comps, result, fetched, failedAt,
    \* remote is a history variable of searchComps: the remote calls it has
    \* issued, in order
    remote,
    \* getPropertyByAddress: position, arguments, the parcel registry's content,
    \* the local `results`, the return value; aQueries is a history variable
    \* (the queries issued, in order)
    apc, aArgs, aRegistry, aQueries, aResults, aReturn,
    \* determineNeighborhood, called twice in a row for the same parcel: position,
    \* call number, arguments, the remaining adjacent blocks of the loop, the
    \* array `neighborhoods` and the return value; hAnswers (what the ledger answered to each query),
    \* hQueries (the queries of the current call) and hFirst (label and queries
    \* of the first call) are history variables
    hpc, hRun, hKey, hAnswers, hAdjacent, hNeighborhoods, hQueries, hLabel, hFirst,
    \* getProperty, getTaxBenefits and getSaleHistory: position, which tool,
    \* its input, the locals boroughCode and property, the return value;
    \* qRemote is a history variable (the remote calls issued, in order)
    qpc, qOp, qInput, qBoroughCode, qProperty, qRemote, qResult,
    \* searchNYCSales: position, input, the where clause, the ledger's rows, the
    \* state of each per-sale fetch, the enriched array, the return value;
    \* kOrder is a history variable (the order in which the fetches completed)
    kpc, kInput, kWhere, kSales, kFetch, kEnriched, kOrder, kResult

scoreVars == <<spc, sSubject, sComp, sSame, sAdj, sScore>>
rentVars == <<rpc, rParams, rInfo>>

taxVars == <<tpc, tArgs, exState, abState, exOutcome, abOutcome, exemptions,
             abatements, issued, arrival, taxResult>>

compsVars == <<pc, input, limit, boroughCode, subject, subjectNeighborhood, where,
               sales, i, plutoData, comps, result, fetched, failedAt, remote>>

addrVars == <<apc, aArgs, aRegistry, aQueries, aResults, aReturn>>

hoodVars == <<hpc, hRun, hKey, hAnswers, hAdjacent, hNeighborhoods, hQueries, hLabel,
              hFirst>>

toolVars == <<qpc, qOp, qInput, qBoroughCode, qProperty, qRemote, qResult>>

salesVars == <<kpc, kInput, kWhere, kSales, kFetch, kEnriched, kOrder, kResult>>

vars == <<scoreVars, rentVars, taxVars, compsVars, addrVars, hoodVars, toolVars,
          salesVars>>

----------------------------------------------------------------------------
(* JavaScript values *)

Null == [t |-> "null"]
NaN == [t |-> "nan"]
Num(n) == [t |-> "num", v |-> n]

\* truthiness of a `number | null` value: null, NaN and 0 are falsy
Truthy(x) == x.t = "num" /\ x.v # 0

\* a || b on `number | null` values
JsOr(a, b) == IF Truthy(a) THEN a ELSE b

\* a || b on integers
IntOr(a, b) == IF a # 0 THEN a ELSE b

Min(a, b) == IF a <= b THEN a ELSE b
Max(a, b) == IF a >= b THEN a ELSE b
Abs(a) == IF a < 0 THEN -a ELSE a

\* Math.round(n / d) for n >= 0, d > 0: halves round up
RoundDiv(n, d) == (2 * n + d) \div (2 * d)

----------------------------------------------------------------------------
(* The values the variables of one operation hold while another operation *)
(* is the one being run                                                   *)

\* the variables of calculateSimilarityScore when another operation is modelled
ScoreIdle ==
    /\ spc = "idle"
    /\ sSubject = Null
    /\ sComp = Null
    /\ sSame = FALSE
    /\ sAdj = FALSE
    /\ sScore = 0

NoRentInfo ==
    [likely_stabilized |-> FALSE, stabilization_reasons |-> <<>>,
     confidence |-> "none", notes |-> <<>>]

\* the variables of calculateRentInfo when another operation is modelled
RentIdle ==
    /\ rpc = "idle"
    /\ rParams = Null
    /\ rInfo = NoRentInfo

\* the variables of getTaxBenefitsByBBL when another operation is modelled
TaxIdle ==
    /\ tpc = "idle"
    /\ tArgs = Null
    /\ exState = "idle"
    /\ abState = "idle"
    /\ exOutcome = Null
    /\ abOutcome = Null
    /\ exemptions = <<>>
    /\ abatements = <<>>
    /\ issued = <<>>
    /\ arrival = <<>>
    /\ taxResult = Null

\* the variables of searchComps when another operation is modelled
CompsIdle ==
    /\ pc = "idle"
    /\ input = Null
    /\ limit = 0
    /\ boroughCode = <<>>
    /\ subject = Null
    /\ subjectNeighborhood = <<>>
    /\ where = Null
    /\ sales = <<>>
    /\ i = 0
    /\ plutoData = Null
    /\ comps = <<>>
    /\ result = Null
    /\ fetched = <<>>
    /\ failedAt = "none"
    /\ remote = <<>>

\* the variables of getPropertyByAddress when another operation is modelled
AddrIdle ==
    /\ apc = "idle"
    /\ aArgs = Null
    /\ aRegistry = {}
    /\ aQueries = <<>>
    /\ aResults = <<>>
    /\ aReturn = Null

\* the variables of determineNeighborhood when another operation is modelled
HoodIdle ==
    /\ hpc = "idle"
    /\ hRun = 0
    /\ hKey = Null
    /\ hAnswers = <<>>
    /\ hAdjacent = <<>>
    /\ hNeighborhoods = <<>>
    /\ hQueries = <<>>
    /\ hLabel = Null
    /\ hFirst = Null

\* the variables of the lookup tools when another operation is modelled
ToolIdle ==
    /\ qpc = "idle"
    /\ qOp = "none"
    /\ qInput = Null
    /\ qBoroughCode = <<>>
    /\ qProperty = Null
    /\ qRemote = <<>>
    /\ qResult = Null

\* the variables of searchNYCSales when another operation is modelled
SalesIdle ==
    /\ kpc = "idle"
    /\ kInput = Null
    /\ kWhere = Null
    /\ kSales = <<>>
    /\ kFetch = <<>>
    /\ kEnriched = <<>>
    /\ kOrder = <<>>
    /\ kResult = Null

----------------------------------------------------------------------------
(* Strings as sequences of characters *)

LowerCase == <<"a", "b", "c", "d", "e", "f", "g", "h", "i", "j", "k", "l", "m",
               "n", "o", "p", "q", "r", "s", "t", "u", "v", "w", "x", "y", "z">>
UpperCase == <<"A", "B", "C", "D", "E", "F", "G", "H", "I", "J", "K", "L", "M",
               "N", "O", "P", "Q", "R", "S", "T", "U", "V", "W", "X", "Y", "Z">>

UpperChar(c) ==
    IF \E k \in 1..Len(LowerCase) : LowerCase[k] = c
    THEN UpperCase[CHOOSE k \in 1..Len(LowerCase) : LowerCase[k] = c]
    ELSE c

\* String.prototype.toUpperCase
ToUpperCase(s) == [k \in 1..Len(s) |-> UpperChar(s[k])]

LowerChar(c) ==
    IF \E k \in 1..Len(UpperCase) : UpperCase[k] = c
    THEN LowerCase[CHOOSE k \in 1..Len(UpperCase) : UpperCase[k] = c]
    ELSE c

\* String.prototype.toLowerCase
ToLowerCase(s) == [k \in 1..Len(s) |-> LowerChar(s[k])]

\* String.prototype.trim (blanks only)
RECURSIVE TrimStart(_)
TrimStart(s) == IF Len(s) > 0 /\ Head(s) = " " THEN TrimStart(Tail(s)) ELSE s

RECURSIVE TrimEnd(_)
TrimEnd(s) ==
    IF Len(s) > 0 /\ s[Len(s)] = " " THEN TrimEnd(SubSeq(s, 1, Len(s) - 1)) ELSE s

Trim(s) == TrimEnd(TrimStart(s))

\* a || b on strings: the empty string (and undefined, modelled as the empty
\* string) is falsy
StrOr(a, b) == IF a # <<>> THEN a ELSE b

\* String.prototype.includes
Includes(s, t) ==
    \E k \in 0..(Len(s) - Len(t)) : \A j \in 1..Len(t) : s[k + j] = t[j]

\* String.prototype.startsWith
StartsWith(s, t) == Len(t) <= Len(s) /\ \A j \in 1..Len(t) : s[j] = t[j]

\* String.prototype.charAt(0): the empty string when there is no character
CharAt0(s) == IF Len(s) = 0 THEN <<>> ELSE <<s[1]>>

----------------------------------------------------------------------------
(* calculateSimilarityScore *)

NeighborhoodPointsNoElse(same, adj) ==
    (IF same THEN 30 ELSE 0) + (IF adj THEN 15 ELSE 0)

\* Neighborhood: same = 30 points, adjacent = 15 points
NeighborhoodPoints(same, adj) ==
    IF same THEN 30 ELSE IF adj THEN 15 ELSE 0

\* Building class: exact match = 25 points, same category = 15 points
ClassPoints(subjectClass, compClass) ==
    IF subjectClass = compClass THEN 25
    ELSE IF CharAt0(subjectClass) = CharAt0(compClass) THEN 15
    ELSE 0

\* Unit count similarity (max 20)
UnitPoints(subjectUnitsTotal, subjectUnitsRes, compUnitsIn) ==
    LET subjectUnits == IntOr(IntOr(subjectUnitsTotal, subjectUnitsRes), 0)
        compUnits == IntOr(compUnitsIn, 0)
    IN IF subjectUnits > 0 /\ compUnits > 0
       THEN RoundDiv(20 * Min(subjectUnits, compUnits), Max(subjectUnits, compUnits))
       ELSE 0

\* Year built similarity (max 15)
YearPoints(subjectYear, compYear) ==
    IF Truthy(subjectYear) /\ Truthy(compYear)
    THEN LET yearDiff == Abs(subjectYear.v - compYear.v)
         IN IF yearDiff <= 5 THEN 15
            ELSE IF yearDiff <= 10 THEN 12
            ELSE IF yearDiff <= 20 THEN 8
            ELSE IF yearDiff <= 30 THEN 4
            ELSE 0
    ELSE 0

\* Size similarity (max 10)
SizePoints(subjectArea, compSqftIn) ==
    LET subjectSqft == IntOr(subjectArea, 0)
        compSqft == IntOr(compSqftIn, 0)
    IN IF subjectSqft > 0 /\ compSqft > 0
       THEN RoundDiv(10 * Min(subjectSqft, compSqft), Max(subjectSqft, compSqft))
       ELSE 0

calculateSimilarityScore(subj, comp, isSameNeighborhood, isAdjacentNeighborhood) ==
    NeighborhoodPoints(isSameNeighborhood, isAdjacentNeighborhood)
    + ClassPoints(subj.building_class, comp.building_class)
    + UnitPoints(subj.units_total, subj.units, comp.units)
    + YearPoints(subj.year_built, comp.year_built)
    + SizePoints(subj.building_area, comp.sqft)

----------------------------------------------------------------------------
(* Specification SpecScore: calculateSimilarityScore over drawn inputs *)

ClassD4 == <<"D", "4">>
ClassD1 == <<"D", "1">>
ClassC1 == <<"C", "1">>
ClassR4 == <<"R", "4">>
EmptyStr == <<>>

ScoreSubjects ==
    [building_class : {ClassD4, ClassC1, EmptyStr},
     units : {0, 4},
     units_total : {0, 2, 10},
     year_built : {Null, NaN, Num(1920)},
     building_area : {0, 10000}]

ScoreComps ==
    [building_class : {ClassD4, ClassD1, EmptyStr},
     units : {0, 3, 10},
     year_built : {Null, Num(0), Num(1918), Num(1930), Num(1940), Num(1950), Num(1951)},
     sqft : {0, 3000, 10000}]

InitScore ==
    /\ AddrIdle /\ HoodIdle /\ ToolIdle /\ SalesIdle
    /\ RentIdle
    /\ TaxIdle
    /\ CompsIdle
    /\ spc = "call"
    /\ sSubject \in ScoreSubjects
    /\ sComp \in ScoreComps
    /\ sSame \in BOOLEAN
    /\ sAdj \in BOOLEAN
    /\ sScore = 0

ScoreCall ==
    /\ spc = "call"
    /\ spc' = "returned"
    /\ sScore' = calculateSimilarityScore(sSubject, sComp, sSame, sAdj)
    /\ UNCHANGED <<sSubject, sComp, sSame, sAdj>>
    /\ UNCHANGED <<rentVars, taxVars, compsVars,
                   addrVars, hoodVars, toolVars, salesVars>>

NextScore == ScoreCall

SpecScore == InitScore /\ [][NextScore]_vars

\* C1: for every subject and joined candidate and every combination of the
\* two neighborhood flags, the returned score is an integer in [0,100] and is
\* the sum of five components bounded by 30, 25, 20, 15 and 10.
C1_ScoreBounded ==
    spc = "returned" =>
        LET n == NeighborhoodPoints(sSame, sAdj)
            c == ClassPoints(sSubject.building_class, sComp.building_class)
            u == UnitPoints(sSubject.units_total, sSubject.units, sComp.units)
            y == YearPoints(sSubject.year_built, sComp.year_built)
            z == SizePoints(sSubject.building_area, sComp.sqft)
        IN /\ sScore \in 0..100
           /\ n \in 0..30 /\ c \in 0..25 /\ u \in 0..20 /\ y \in 0..15 /\ z \in 0..10
           /\ sScore = n + c + u + y + z

\* C1 witness: both flags set, every component at its maximum (Scenario A)
C1_Witness ==
    /\ spc = "returned"
    /\ sSame /\ sAdj
    /\ sScore = 100

----------------------------------------------------------------------------
(* calculateRentInfo *)

NYCHA == <<"N", "Y", "C", "H", "A">>
NYCityHousingAuthority ==
    <<"N", "E", "W", " ", "Y", "O", "R", "K", " ", "C", "I", "T", "Y", " ",
      "H", "O", "U", "S", "I", "N", "G", " ", "A", "U", "T", "H", "O", "R", "I", "T", "Y">>
NYCHousingAuthority ==
    <<"N", "Y", "C", " ", "H", "O", "U", "S", "I", "N", "G", " ",
      "A", "U", "T", "H", "O", "R", "I", "T", "Y">>

\* an optional boolean parameter: "undefined" and "false" are falsy
OptFlags == {"undefined", "false", "true"}
FlagSet(f) == f = "true"

\* Check for NYCHA (public housing)
IsNYCHA(owner) ==
    LET u == ToUpperCase(owner)
    IN \/ Includes(u, NYCHA)
       \/ Includes(u, NYCityHousingAuthority)
       \/ Includes(u, NYCHousingAuthority)

\* the early return for a housing-authority owner
NychaInfo ==
    [likely_stabilized |-> FALSE,
     stabilization_reasons |-> <<>>,
     confidence |-> "high",
     notes |-> <<"nycha">>]

AgeUnitRuleOver6(year, units, isCondoCoop) ==
    Truthy(year) /\ year.v < 1974 /\ units > 6 /\ ~isCondoCoop

\* Rule 1: Pre-1974 buildings with 6+ units (0, null and NaN years are falsy)
AgeUnitRule(year, units, isCondoCoop) ==
    Truthy(year) /\ year.v < 1974 /\ units >= 6 /\ ~isCondoCoop

GeneralNotesIndependent(likely, units, year) ==
    (IF likely THEN <<"deregulation", "verify">> ELSE <<>>)
    \o (IF units >= 6 /\ Truthy(year) /\ year.v >= 1974 THEN <<"after1974">> ELSE <<>>)
    \o (IF units > 0 /\ units < 6 THEN <<"below6">> ELSE <<>>)

\* Add general notes: if (likely_stabilized) ... else if ... else if ...
GeneralNotes(likely, units, year) ==
    IF likely THEN <<"deregulation", "verify">>
    ELSE IF units >= 6 /\ Truthy(year) /\ year.v >= 1974 THEN <<"after1974">>
    ELSE IF units > 0 /\ units < 6 THEN <<"below6">>
    ELSE <<>>

BenefitConfidenceKept(previous, flag) == previous

\* confidence = "high" inside if (has_421a) and inside if (has_j51)
BenefitConfidence(previous, flag) == IF flag THEN "high" ELSE previous

\* the rules evaluated for every other owner, in source order; reasons and
\* notes are named by the message each one pushes
RentRules(p) ==
    LET year == p.year_built
        units == p.units
        isCondoCoop == StartsWith(ToUpperCase(p.building_class), <<"R">>)
        notes0 == IF isCondoCoop THEN <<"condo_coop">> ELSE <<>>
        rule1 == AgeUnitRule(year, units, isCondoCoop)
        reasons1 == IF rule1 THEN <<"pre1974">> ELSE <<>>
        conf1 == IF rule1 THEN "medium" ELSE "low"
        notes1 == IF rule1 /\ year.v < 1947 THEN Append(notes0, "pre1947") ELSE notes0
        \* Rule 2: Tax benefit recipients (421a, J-51)
        a == FlagSet(p.has_421a)
        reasons2 == IF a THEN Append(reasons1, "421a") ELSE reasons1
        conf2 == BenefitConfidence(conf1, a)
        notes2 == IF a THEN Append(notes1, "421a_expiry") ELSE notes1
        j == FlagSet(p.has_j51)
        reasons3 == IF j THEN Append(reasons2, "j51") ELSE reasons2
        conf3 == BenefitConfidence(conf2, j)
        notes3 == IF j THEN Append(notes2, "j51_extension") ELSE notes2
        likely == rule1 \/ a \/ j
        \* general notes
        notes4 == notes3 \o GeneralNotes(likely, units, year)
        \* adjust confidence if key factors could not be determined
        unknown == ~Truthy(year) /\ units < 6
    IN [likely_stabilized |-> likely,
        stabilization_reasons |-> reasons3,
        confidence |-> IF unknown THEN "low" ELSE conf3,
        notes |-> IF unknown THEN Append(notes4, "year_unknown") ELSE notes4]

\* a variant in which the housing-authority branch records its note and
\* confidence but falls through to the rules instead of returning
calculateRentInfoFallThrough(p) ==
    LET r == RentRules(p)
    IN IF IsNYCHA(p.owner)
       THEN [r EXCEPT !.notes = <<"nycha">> \o r.notes]
       ELSE r

calculateRentInfo(p) ==
    IF IsNYCHA(p.owner) THEN NychaInfo ELSE RentRules(p)

----------------------------------------------------------------------------
(* Specification SpecRent: calculateRentInfo over drawn inputs *)

OwnerLowerNycha == <<"n", "y", "c", "h", "a">>
OwnerMixedCase ==
    <<"N", "y", "c", " ", "H", "o", "u", "s", "i", "n", "g", " ",
      "A", "u", "t", "h", "o", "r", "i", "t", "y">>
OwnerPrivate == <<"S", "M", "I", "T", "H">>
OwnerOtherAuthority ==
    <<"H", "O", "U", "S", "I", "N", "G", " ", "A", "U", "T", "H", "O", "R", "I", "T", "Y">>

RentOwners ==
    {EmptyStr, OwnerPrivate, OwnerOtherAuthority, OwnerLowerNycha, OwnerMixedCase,
     NYCityHousingAuthority}

RentParams ==
    [year_built : {Null, NaN, Num(0), Num(1930), Num(1946), Num(1947),
                   Num(1973), Num(1974), Num(2000)},
     units : {0, 1, 5, 6, 8},
     building_class : {EmptyStr, ClassC1, ClassR4, <<"r", "4">>},
     owner : RentOwners,
     has_421a : OptFlags,
     has_j51 : OptFlags]

InitRent ==
    /\ AddrIdle /\ HoodIdle /\ ToolIdle /\ SalesIdle
    /\ ScoreIdle
    /\ TaxIdle
    /\ CompsIdle
    /\ rpc = "call"
    /\ rParams \in RentParams
    /\ rInfo = NoRentInfo

RentCall ==
    /\ rpc = "call"
    /\ rpc' = "returned"
    /\ rInfo' = calculateRentInfo(rParams)
    /\ UNCHANGED rParams
    /\ UNCHANGED <<scoreVars, taxVars, compsVars,
                   addrVars, hoodVars, toolVars, salesVars>>

NextRent == RentCall

SpecRent == InitRent /\ [][NextRent]_vars

\* C9: whenever the owner name matches the housing-authority pattern the
\* assessment is likely_stabilized = false, confidence = high, no reasons and
\* exactly one note, for every year, unit count, class and flag combination.
C9_NychaTerminal ==
    (rpc = "returned" /\ IsNYCHA(rParams.owner)) =>
        /\ rInfo.likely_stabilized = FALSE
        /\ rInfo.confidence = "high"
        /\ rInfo.stabilization_reasons = <<>>
        /\ Len(rInfo.notes) = 1

\* C9 witness: a housing-authority owner, written in lower case, whose other
\* attributes would fire the age rule and both tax-benefit rules
C9_Witness ==
    /\ rpc = "returned"
    /\ rParams.owner = OwnerLowerNycha
    /\ rParams.year_built = Num(1930)
    /\ rParams.units = 8
    /\ rParams.building_class = ClassC1
    /\ FlagSet(rParams.has_421a) /\ FlagSet(rParams.has_j51)
    /\ rInfo.stabilization_reasons = <<>>

\* C10: non-housing-authority owner, no tax-benefit flag, year built known
\* (a non-zero number; the code reads 0 as unknown) and before 1974, at least
\* 6 units, class category not R: likely_stabilized = true, confidence =
\* medium, exactly one reason, and the pre-1947 note is present exactly when
\* the year built is before 1947.
C10_AgeUnitRule ==
    (/\ rpc = "returned"
     /\ ~IsNYCHA(rParams.owner)
     /\ ~FlagSet(rParams.has_421a) /\ ~FlagSet(rParams.has_j51)
     /\ Truthy(rParams.year_built) /\ rParams.year_built.v < 1974
     /\ rParams.units >= 6
     /\ CharAt0(ToUpperCase(rParams.building_class)) # <<"R">>) =>
        /\ rInfo.likely_stabilized = TRUE
        /\ rInfo.confidence = "medium"
        /\ Len(rInfo.stabilization_reasons) = 1
        /\ (\E k \in 1..Len(rInfo.notes) : rInfo.notes[k] = "pre1947")
               <=> rParams.year_built.v < 1947

\* C10 witness: Scenario C (1930, 8 units, class C1, no flags)
C10_Witness ==
    /\ rpc = "returned"
    /\ rParams.owner = OwnerPrivate
    /\ rParams.year_built = Num(1930)
    /\ rParams.units = 8
    /\ rParams.building_class = ClassC1
    /\ rParams.has_421a = "undefined" /\ rParams.has_j51 = "false"
    /\ rInfo.likely_stabilized
    /\ rInfo.notes = <<"pre1947", "deregulation", "verify">>

\* C11: for every non-housing-authority input with the 421a flag or the J-51
\* flag set, the assessment is likely_stabilized = true with confidence =
\* high, whatever the year built (unknown included), unit count (below 6
\* included) and building class.
C11_TaxBenefitHigh ==
    (/\ rpc = "returned"
     /\ ~IsNYCHA(rParams.owner)
     /\ FlagSet(rParams.has_421a) \/ FlagSet(rParams.has_j51)) =>
        /\ rInfo.likely_stabilized = TRUE
        /\ rInfo.confidence = "high"

----------------------------------------------------------------------------
(* Tax benefits: queryExemptions, queryAbatements, formatBBL,              *)
(* getTaxBenefitsByBBL                                                      *)

\* String.prototype.padStart(n, '0')
PadStart(s, n) ==
    IF Len(s) >= n THEN s ELSE [k \in 1..(n - Len(s)) |-> "0"] \o s

formatBBL(boro, block, lot) ==
    PadStart(boro, 1) \o PadStart(block, 5) \o PadStart(lot, 4)

\* parseFloat(String(x || "0")) || 0 for a raw numeric field: a missing field,
\* a non-numeric text and 0 all give 0
ParseAmount(x) == IF Truthy(x) THEN x.v ELSE 0

\* the row mapping of queryExemptions (pass-through fields other than the tax
\* year are left out)
MapExemptionRow(row) ==
    [tax_year |-> row.taxyear,
     exemption_code |-> row.exmptcode,
     exemption_description |-> row.exmptdesc,
     exempt_value |-> ParseAmount(row.exmpttot)]

\* the row mapping of queryAbatements
MapAbatementRow(row) ==
    [tax_year |-> row.taxyear,
     abatement_code |-> row.apts_code,
     abatement_description |-> row.apts_desc,
     abatement_amount |-> ParseAmount(row.curabttot)]

\* What a registry call can do: answer with rows, answer with an HTTP error
\* status, or throw (network failure, unparsable body).
\* The value of the promise a query function returns: fulfilled with rows, or
\* rejected.
Fulfilled(rows) == [settled |-> "fulfilled", rows |-> rows]
Rejected == [settled |-> "rejected"]

queryExemptionsNoCatch(outcome) ==
    IF outcome.kind = "ok"
    THEN Fulfilled([k \in 1..Len(outcome.rows) |-> MapExemptionRow(outcome.rows[k])])
    ELSE IF outcome.kind = "http_error" THEN Fulfilled(<<>>)
    ELSE Rejected

\* queryExemptions: !response.ok returns [], and the catch returns []
queryExemptions(outcome) ==
    IF outcome.kind = "ok"
    THEN Fulfilled([k \in 1..Len(outcome.rows) |-> MapExemptionRow(outcome.rows[k])])
    ELSE Fulfilled(<<>>)

\* queryAbatements: !response.ok returns [], and the catch returns []
queryAbatements(outcome) ==
    IF outcome.kind = "ok"
    THEN Fulfilled([k \in 1..Len(outcome.rows) |-> MapAbatementRow(outcome.rows[k])])
    ELSE Fulfilled(<<>>)

\* Array.prototype.join(' ')
RECURSIVE JoinSpace(_)
JoinSpace(strs) ==
    IF Len(strs) = 0 THEN <<>>
    ELSE IF Len(strs) = 1 THEN strs[1]
    ELSE strs[1] \o <<" ">> \o JoinSpace(Tail(strs))

\* reduce((sum, x) => sum + x, 0)
RECURSIVE SumSeq(_)
SumSeq(nums) == IF Len(nums) = 0 THEN 0 ELSE Head(nums) + SumSeq(Tail(nums))

Tok421A == <<"4", "2", "1", "A">>
Tok421DashA == <<"4", "2", "1", "-", "A">>
TokJ51 == <<"J", "5", "1">>
TokJDash51 == <<"J", "-", "5", "1">>
TokICAP == <<"I", "C", "A", "P">>
TokICIP == <<"I", "C", "I", "P">>
TokSTAR == <<"S", "T", "A", "R">>

\* the flags, totals and result record of getTaxBenefitsByBBL
TaxBenefitsOf(bbl, exs, abs) ==
    LET allCodes == JoinSpace(
            [k \in 1..Len(exs) |-> ToUpperCase(exs[k].exemption_code)]
            \o [k \in 1..Len(abs) |-> ToUpperCase(abs[k].abatement_code)]
            \o [k \in 1..Len(exs) |-> ToUpperCase(exs[k].exemption_description)]
            \o [k \in 1..Len(abs) |-> ToUpperCase(abs[k].abatement_description)])
    IN [bbl |-> bbl,
        exemptions |-> exs,
        abatements |-> abs,
        has_421a |-> Includes(allCodes, Tok421A) \/ Includes(allCodes, Tok421DashA),
        has_j51 |-> Includes(allCodes, TokJ51) \/ Includes(allCodes, TokJDash51),
        has_icap |-> Includes(allCodes, TokICAP) \/ Includes(allCodes, TokICIP),
        has_star |-> Includes(allCodes, TokSTAR),
        total_exemption_value |->
            SumSeq([k \in 1..Len(exs) |-> exs[k].exempt_value]),
        total_abatement_amount |->
            SumSeq([k \in 1..Len(abs) |-> abs[k].abatement_amount])]

JoinReadyAny(es, as) == es = "done" \/ as = "done"

\* await Promise.all([...]): the caller resumes when both promises are settled
JoinReady(es, as) == es = "done" /\ as = "done"

----------------------------------------------------------------------------
(* Specification SpecTax: one call of getTaxBenefitsByBBL *)

MaxRows == 2

Year2024 == <<"2", "0", "2", "4">>
Year2023 == <<"2", "0", "2", "3">>

\* rows the exemption registry may return
RawExemptionRows ==
    {[taxyear |-> Year2024, exmptcode |-> <<"5", "1", "1", "0">>,
      exmptdesc |-> <<"4", "2", "1", "a">>, exmpttot |-> Num(1000)],
     [taxyear |-> Year2023, exmptcode |-> <<"1", "0", "1", "7">>,
      exmptdesc |-> <<"S", "t", "a", "r">>, exmpttot |-> NaN],
     [taxyear |-> Year2023, exmptcode |-> <<"J", "-", "5", "1">>,
      exmptdesc |-> EmptyStr, exmpttot |-> Num(70)]}

\* rows the abatement registry may return
RawAbatementRows ==
    {[taxyear |-> Year2024, apts_code |-> Tok421A,
      apts_desc |-> EmptyStr, curabttot |-> Num(500)],
     [taxyear |-> Year2023, apts_code |-> <<"j", "5", "1">>,
      apts_desc |-> <<"R", "E", "H", "A", "B">>, curabttot |-> Num(200)],
     [taxyear |-> Year2024, apts_code |-> TokICIP,
      apts_desc |-> EmptyStr, curabttot |-> Null]}

SeqsUpTo(S, n) == UNION {[1..m -> S] : m \in 0..n}

Outcomes(rows) ==
    {[kind |-> "http_error"], [kind |-> "throw"]}
    \cup {[kind |-> "ok", rows |-> r] : r \in SeqsUpTo(rows, MaxRows)}

TaxArgs ==
    {[boroughCode |-> <<"1">>, block |-> <<"4", "0", "0">>, lot |-> <<"2">>],
     [boroughCode |-> <<"3">>, block |-> <<"0", "1", "2", "3", "4">>,
      lot |-> <<"0", "0", "1", "5">>]}

InitTax ==
    /\ AddrIdle /\ HoodIdle /\ ToolIdle /\ SalesIdle
    /\ ScoreIdle
    /\ RentIdle
    /\ CompsIdle
    /\ tpc = "call"
    /\ tArgs \in TaxArgs
    /\ exState = "idle"
    /\ abState = "idle"
    /\ exOutcome = Null
    /\ abOutcome = Null
    /\ exemptions = <<>>
    /\ abatements = <<>>
    /\ issued = <<>>
    /\ arrival = <<>>
    /\ taxResult = Null

\* queryExemptions(bbl) runs up to its `await fetch(url)`: the request is sent
IssueExemptions ==
    /\ tpc = "call"
    /\ tpc' = "issuing"
    /\ exState' = "pending"
    /\ issued' = Append(issued, "exemptions")
    /\ UNCHANGED <<tArgs, abState, exOutcome, abOutcome, exemptions, abatements,
                   arrival, taxResult>>
    /\ UNCHANGED <<scoreVars, rentVars, compsVars,
                   addrVars, hoodVars, toolVars, salesVars>>

\* queryAbatements(bbl) runs up to its `await fetch(url)` in the same turn, and
\* the caller then awaits Promise.all
IssueAbatements ==
    /\ tpc = "issuing"
    /\ tpc' = "awaiting"
    /\ abState' = "pending"
    /\ issued' = Append(issued, "abatements")
    /\ UNCHANGED <<tArgs, exState, exOutcome, abOutcome, exemptions, abatements,
                   arrival, taxResult>>
    /\ UNCHANGED <<scoreVars, rentVars, compsVars,
                   addrVars, hoodVars, toolVars, salesVars>>

\* the exemption registry's response is delivered and queryExemptions settles;
\* a rejection would reject Promise.all and with it the caller
ExemptionsSettle ==
    /\ tpc = "awaiting"
    /\ exState = "pending"
    /\ \E o \in Outcomes(RawExemptionRows) :
        LET p == queryExemptions(o)
        IN /\ exOutcome' = o
           /\ exState' = "done"
           /\ arrival' = Append(arrival, "exemptions")
           /\ IF p.settled = "fulfilled"
              THEN exemptions' = p.rows /\ tpc' = tpc
              ELSE exemptions' = exemptions /\ tpc' = "failed"
    /\ UNCHANGED <<tArgs, abState, abOutcome, abatements, issued, taxResult>>
    /\ UNCHANGED <<scoreVars, rentVars, compsVars,
                   addrVars, hoodVars, toolVars, salesVars>>

\* the abatement registry's response is delivered and queryAbatements settles
AbatementsSettle ==
    /\ tpc = "awaiting"
    /\ abState = "pending"
    /\ \E o \in Outcomes(RawAbatementRows) :
        LET p == queryAbatements(o)
        IN /\ abOutcome' = o
           /\ abState' = "done"
           /\ arrival' = Append(arrival, "abatements")
           /\ IF p.settled = "fulfilled"
              THEN abatements' = p.rows /\ tpc' = tpc
              ELSE abatements' = abatements /\ tpc' = "failed"
    /\ UNCHANGED <<tArgs, exState, exOutcome, exemptions, issued, taxResult>>
    /\ UNCHANGED <<scoreVars, rentVars, compsVars,
                   addrVars, hoodVars, toolVars, salesVars>>

\* Promise.all is fulfilled: flags and totals are computed and returned
Aggregate ==
    /\ tpc = "awaiting"
    /\ JoinReady(exState, abState)
    /\ tpc' = "done"
    /\ taxResult' = TaxBenefitsOf(
            formatBBL(tArgs.boroughCode, tArgs.block, tArgs.lot),
            exemptions, abatements)
    /\ UNCHANGED <<tArgs, exState, abState, exOutcome, abOutcome, exemptions,
                   abatements, issued, arrival>>
    /\ UNCHANGED <<scoreVars, rentVars, compsVars,
                   addrVars, hoodVars, toolVars, salesVars>>

NextTax ==
    \/ IssueExemptions
    \/ IssueAbatements
    \/ ExemptionsSettle
    \/ AbatementsSettle
    \/ Aggregate

SpecTax == InitTax /\ [][NextTax]_vars

TaxBBL == formatBBL(tArgs.boroughCode, tArgs.block, tArgs.lot)

\* some row of the mapped exemptions names the token in its code or description
ExemptionRowsName(exs, tok) ==
    \E k \in 1..Len(exs) :
        \/ Includes(ToUpperCase(exs[k].exemption_code), tok)
        \/ Includes(ToUpperCase(exs[k].exemption_description), tok)

\* some row of the mapped abatements names the token in its code or description
AbatementRowsName(abs, tok) ==
    \E k \in 1..Len(abs) :
        \/ Includes(ToUpperCase(abs[k].abatement_code), tok)
        \/ Includes(ToUpperCase(abs[k].abatement_description), tok)

\* C7: getTaxBenefitsByBBL never fails because a registry call failed; when
\* only the exemption query fails (HTTP error or exception) the result has
\* exemptions = [] and total_exemption_value = 0, and the abatement rows, the
\* flags and total_abatement_amount are those of the abatement response alone;
\* symmetrically when only the abatement query fails.
C7_OneRegistryFails ==
    /\ tpc # "failed"
    /\ (tpc = "done" /\ exOutcome.kind # "ok" /\ abOutcome.kind = "ok") =>
        LET abs == [k \in 1..Len(abOutcome.rows) |-> MapAbatementRow(abOutcome.rows[k])]
        IN /\ taxResult.exemptions = <<>>
           /\ taxResult.total_exemption_value = 0
           /\ taxResult.abatements = abs
           /\ taxResult.total_abatement_amount =
                  SumSeq([k \in 1..Len(abs) |-> abs[k].abatement_amount])
           /\ taxResult.has_421a <=>
                  (AbatementRowsName(abs, Tok421A) \/ AbatementRowsName(abs, Tok421DashA))
           /\ taxResult.has_j51 <=>
                  (AbatementRowsName(abs, TokJ51) \/ AbatementRowsName(abs, TokJDash51))
           /\ taxResult.has_icap <=>
                  (AbatementRowsName(abs, TokICAP) \/ AbatementRowsName(abs, TokICIP))
           /\ taxResult.has_star <=> AbatementRowsName(abs, TokSTAR)
    /\ (tpc = "done" /\ exOutcome.kind = "ok" /\ abOutcome.kind # "ok") =>
        LET exs == [k \in 1..Len(exOutcome.rows) |-> MapExemptionRow(exOutcome.rows[k])]
        IN /\ taxResult.abatements = <<>>
           /\ taxResult.total_abatement_amount = 0
           /\ taxResult.exemptions = exs
           /\ taxResult.total_exemption_value =
                  SumSeq([k \in 1..Len(exs) |-> exs[k].exempt_value])
           /\ taxResult.has_421a <=>
                  (ExemptionRowsName(exs, Tok421A) \/ ExemptionRowsName(exs, Tok421DashA))
           /\ taxResult.has_j51 <=>
                  (ExemptionRowsName(exs, TokJ51) \/ ExemptionRowsName(exs, TokJDash51))
           /\ taxResult.has_icap <=>
                  (ExemptionRowsName(exs, TokICAP) \/ ExemptionRowsName(exs, TokICIP))
           /\ taxResult.has_star <=> ExemptionRowsName(exs, TokSTAR)

\* C7 witness: Scenario D, the exemption call throws and the abatement call
\* answers with one 421A row
C7_Witness ==
    /\ tpc = "done"
    /\ exOutcome.kind = "throw"
    /\ abOutcome.kind = "ok"
    /\ Len(abOutcome.rows) = 1
    /\ abOutcome.rows[1].apts_code = Tok421A
    /\ taxResult.exemptions = <<>>
    /\ Len(taxResult.abatements) = 1
    /\ taxResult.has_421a
    /\ taxResult.total_exemption_value = 0
    /\ taxResult.total_abatement_amount = 500

\* C8: both registry queries are issued before either response is handled,
\* flags and totals are computed only after both queries have completed, and
\* the result is determined by the two responses alone, whatever the order in
\* which they arrived.
C8_IssueBothThenJoin ==
    /\ arrival # <<>> => issued = <<"exemptions", "abatements">>
    /\ taxResult # Null => tpc = "done"
    /\ tpc = "done" =>
        /\ exState = "done" /\ abState = "done"
        /\ Len(arrival) = 2
        /\ taxResult = TaxBenefitsOf(TaxBBL, queryExemptions(exOutcome).rows,
                                     queryAbatements(abOutcome).rows)

\* C8 witness: the abatement response arrived first and both lists are non-empty
C8_Witness ==
    /\ tpc = "done"
    /\ arrival = <<"abatements", "exemptions">>
    /\ Len(taxResult.exemptions) = 2
    /\ Len(taxResult.abatements) = 1

----------------------------------------------------------------------------
(* Borough codes (utils.ts) *)

BOROUGH_CODES ==
    <<<<<<"m", "a", "n", "h", "a", "t", "t", "a", "n">>, <<"1">>>>,
      <<<<"b", "r", "o", "n", "x">>, <<"2">>>>,
      <<<<"t", "h", "e", " ", "b", "r", "o", "n", "x">>, <<"2">>>>,
      <<<<"b", "r", "o", "o", "k", "l", "y", "n">>, <<"3">>>>,
      <<<<"q", "u", "e", "e", "n", "s">>, <<"4">>>>,
      <<<<"s", "t", "a", "t", "e", "n", " ", "i", "s", "l", "a", "n", "d">>, <<"5">>>>,
      <<<<"m", "n">>, <<"1">>>>,
      <<<<"b", "x">>, <<"2">>>>,
      <<<<"b", "k">>, <<"3">>>>,
      <<<<"q", "n">>, <<"4">>>>,
      <<<<"s", "i">>, <<"5">>>>,
      <<<<"n", "y", "c">>, <<"1">>>>,
      <<<<"n", "e", "w", " ", "y", "o", "r", "k">>, <<"1">>>>,
      <<<<"1">>, <<"1">>>>,
      <<<<"2">>, <<"2">>>>,
      <<<<"3">>, <<"3">>>>,
      <<<<"4">>, <<"4">>>>,
      <<<<"5">>, <<"5">>>>>>

BOROUGH_NAMES ==
    <<<<<<"1">>, <<"M", "a", "n", "h", "a", "t", "t", "a", "n">>>>,
      <<<<"2">>, <<"B", "r", "o", "n", "x">>>>,
      <<<<"3">>, <<"B", "r", "o", "o", "k", "l", "y", "n">>>>,
      <<<<"4">>, <<"Q", "u", "e", "e", "n", "s">>>>,
      <<<<"5">>, <<"S", "t", "a", "t", "e", "n", " ", "I", "s", "l", "a", "n", "d">>>>,
      <<<<"M", "N">>, <<"M", "a", "n", "h", "a", "t", "t", "a", "n">>>>,
      <<<<"B", "X">>, <<"B", "r", "o", "n", "x">>>>,
      <<<<"B", "K">>, <<"B", "r", "o", "o", "k", "l", "y", "n">>>>,
      <<<<"Q", "N">>, <<"Q", "u", "e", "e", "n", "s">>>>,
      <<<<"S", "I">>, <<"S", "t", "a", "t", "e", "n", " ", "I", "s", "l", "a", "n", "d">>>>>>

\* table[key], or undefined (modelled as the empty string) for a missing key
Lookup(table, key) ==
    IF \E k \in 1..Len(table) : table[k][1] = key
    THEN table[CHOOSE k \in 1..Len(table) : table[k][1] = key][2]
    ELSE <<>>

getBoroughCode(name) == Lookup(BOROUGH_CODES, Trim(ToLowerCase(name)))

getBoroughName(code) == Lookup(BOROUGH_NAMES, code)

----------------------------------------------------------------------------
(* Parcel keys *)

\* s.replace(/^0+/, "")
RECURSIVE StripLeadingZeros(_)
StripLeadingZeros(s) ==
    IF Len(s) > 0 /\ Head(s) = "0" THEN StripLeadingZeros(Tail(s)) ELSE s

\* block.replace(/^0+/, "") || "0", as getPropertyByBBL and getSalesByBBL
\* write a block or lot into a query
NormalizeKeyPart(s) == StrOr(StripLeadingZeros(s), <<"0">>)

\* the parcel of a parcel-registry record: its borough is an abbreviation ("MN")
ParcelKey(parcel) ==
    <<StrOr(getBoroughCode(parcel.borough), parcel.borough),
      NormalizeKeyPart(parcel.block), NormalizeKeyPart(parcel.lot)>>

----------------------------------------------------------------------------
(* Addresses (pluto.ts): normalizeAddress, extractStreetNumber,            *)
(* extractStreetName and the three WHERE clauses of getPropertyByAddress.  *)
(* Addresses are made of letters, digits, quotes and single blanks.        *)

Digits == {"0", "1", "2", "3", "4", "5", "6", "7", "8", "9"}

\* s.split(" ")
RECURSIVE SplitBlank(_)
SplitBlank(s) ==
    IF \E k \in 1..Len(s) : s[k] = " "
    THEN LET at == CHOOSE k \in 1..Len(s) :
                       s[k] = " " /\ \A j \in 1..(k - 1) : s[j] # " "
         IN <<SubSeq(s, 1, at - 1)>> \o SplitBlank(SubSeq(s, at + 1, Len(s)))
    ELSE <<s>>

EndsWith(s, t) ==
    Len(t) <= Len(s) /\ \A j \in 1..Len(t) : s[Len(s) - Len(t) + j] = t[j]

\* the match of /^(\d+)/
RECURSIVE LeadingDigits(_)
LeadingDigits(s) ==
    IF Len(s) > 0 /\ Head(s) \in Digits
    THEN <<Head(s)>> \o LeadingDigits(Tail(s))
    ELSE <<>>

\* replace(/(\d+)(ST|ND|RD|TH)\b/g, '$1') on one word
StripOrdinal(word) ==
    IF /\ Len(word) >= 3
       /\ word[Len(word) - 2] \in Digits
       /\ \E suffix \in {<<"S", "T">>, <<"N", "D">>, <<"R", "D">>, <<"T", "H">>} :
              EndsWith(word, suffix)
    THEN SubSeq(word, 1, Len(word) - 2)
    ELSE word

\* replace(/\bE\b\.?\s+/g, 'EAST ') and the same for W, N and S, on a word
\* that is followed by a blank
ExpandDirection(word) ==
    IF word = <<"E">> THEN <<"E", "A", "S", "T">>
    ELSE IF word = <<"W">> THEN <<"W", "E", "S", "T">>
    ELSE IF word = <<"N">> THEN <<"N", "O", "R", "T", "H">>
    ELSE IF word = <<"S">> THEN <<"S", "O", "U", "T", "H">>
    ELSE word

\* replace(/\bST\b\.?$/g, 'STREET') and the seven that follow it, on the last
\* word
ExpandStreetType(word) ==
    IF word = <<"S", "T">> THEN <<"S", "T", "R", "E", "E", "T">>
    ELSE IF word = <<"A", "V", "E">> THEN <<"A", "V", "E", "N", "U", "E">>
    ELSE IF word = <<"B", "L", "V", "D">> THEN <<"B", "O", "U", "L", "E", "V", "A", "R", "D">>
    ELSE IF word = <<"P", "L">> THEN <<"P", "L", "A", "C", "E">>
    ELSE IF word = <<"D", "R">> THEN <<"D", "R", "I", "V", "E">>
    ELSE IF word = <<"L", "N">> THEN <<"L", "A", "N", "E">>
    ELSE IF word = <<"C", "T">> THEN <<"C", "O", "U", "R", "T">>
    ELSE IF word = <<"R", "D">> THEN <<"R", "O", "A", "D">>
    ELSE word

\* replace(/'/g, "''")
RECURSIVE EscapeQuotes(_)
EscapeQuotes(s) ==
    IF Len(s) = 0 THEN <<>>
    ELSE (IF Head(s) = "'" THEN <<"'", "'">> ELSE <<Head(s)>>) \o EscapeQuotes(Tail(s))

normalizeAddress(address) ==
    LET upper == Trim(ToUpperCase(address))
        words == SplitBlank(upper)
        n == Len(words)
        noOrdinals == [k \in 1..n |-> StripOrdinal(words[k])]
        directions == [k \in 1..n |->
                          IF k < n THEN ExpandDirection(noOrdinals[k])
                          ELSE noOrdinals[k]]
        streetTypes == [k \in 1..n |->
                           IF k = n THEN ExpandStreetType(directions[k])
                           ELSE directions[k]]
    IN EscapeQuotes(JoinSpace(streetTypes))

\* address.match(/^(\d+)/) on the address as given; null is the empty string
extractStreetNumber(address) == LeadingDigits(address)

\* normalized.match(/^\d+\s+(.+)$/); null is the empty string
extractStreetName(address) ==
    LET normalized == normalizeAddress(address)
        number == LeadingDigits(normalized)
    IN IF /\ Len(number) > 0
          /\ Len(normalized) > Len(number) + 1
          /\ normalized[Len(number) + 1] = " "
       THEN TrimStart(SubSeq(normalized, Len(number) + 1, Len(normalized)))
       ELSE <<>>

\* streetName.split(/\s+/).slice(0, 2).join(' ')
StreetNameParts(streetName) ==
    LET words == SplitBlank(streetName)
    IN JoinSpace(SubSeq(words, 1, Min(2, Len(words))))

\* a WHERE clause of getPropertyByAddress: upper(address) LIKE '<pattern>%',
\* and borocode = '<borocode>' unless borocode is empty
AddressWhere(pattern, code) == [pattern |-> pattern, borocode |-> code]

\* Query 1 - exact match
Query1Where(address, code) == AddressWhere(normalizeAddress(address), code)

\* Query 2 - street number and the first two words of the street name
Query2Where(address, code) ==
    AddressWhere(extractStreetNumber(address) \o <<" ">>
                     \o StreetNameParts(extractStreetName(address)),
                 code)

\* Query 3 - without borough filter
Query3Where(address) == AddressWhere(normalizeAddress(address), <<>>)

\* results.length === 0 && streetNumber && streetName
WantsQuery2(results, address) ==
    /\ Len(results) = 0
    /\ extractStreetNumber(address) # <<>>
    /\ extractStreetName(address) # <<>>

WantsQuery3Always(results, code) == Len(results) = 0

\* results.length === 0 && boroughCode
WantsQuery3(results, code) == Len(results) = 0 /\ code # <<>>

\* the rows of the parcel registry a WHERE clause selects
PlutoMatches(row, w) ==
    /\ StartsWith(ToUpperCase(row.address), w.pattern)
    /\ w.borocode # <<>> => row.borocode = w.borocode

----------------------------------------------------------------------------
(* Neighborhood tables (cities/nyc/neighborhoods) *)

Soho == <<"S", "O", "H", "O">>
Noho == <<"N", "O", "H", "O">>
Chelsea == <<"C", "H", "E", "L", "S", "E", "A">>

\* the adjacency table: each label with the labels adjacent to it
ADJACENT_NEIGHBORHOODS ==
    <<<<Soho, <<Noho>>>>, <<Noho, <<Soho>>>>, <<Chelsea, <<>>>>>>

AdjacentTo(label) ==
    IF \E k \in 1..Len(ADJACENT_NEIGHBORHOODS) : ADJACENT_NEIGHBORHOODS[k][1] = label
    THEN ADJACENT_NEIGHBORHOODS[
            CHOOSE k \in 1..Len(ADJACENT_NEIGHBORHOODS) :
                ADJACENT_NEIGHBORHOODS[k][1] = label][2]
    ELSE <<>>

\* the subject's own label followed by the labels adjacent to it
getCompatibleNeighborhoods(label) ==
    <<ToUpperCase(label)>> \o AdjacentTo(ToUpperCase(label))

\* the two labels are the same or adjacent
areNeighborhoodsCompatible(a, b) ==
    \/ ToUpperCase(a) = ToUpperCase(b)
    \/ \E k \in 1..Len(AdjacentTo(ToUpperCase(a))) :
           AdjacentTo(ToUpperCase(a))[k] = ToUpperCase(b)

----------------------------------------------------------------------------
(* searchComps: helpers *)

DefaultLimit == 10
MaxLimit == 50
NominalSalePrice == 100000
OverFetch == 3

\* Math.min(input.limit || 10, 50)
EffectiveLimit(requested) == Min(JsOr(requested, Num(DefaultLimit)).v, MaxLimit)

\* the candidate filter, as the conditions joined into the WHERE clause
CandidateWhere(code, category, neighborhoods) ==
    [min_price |-> NominalSalePrice,
     borough |-> code,
     class_prefix |-> category,
     whole_buildings |-> TRUE,
     neighborhoods |-> neighborhoods]

\* the sales ledger evaluating that filter on one of its rows
MatchesWhere(row, w) ==
    /\ row.sale_price > w.min_price
    /\ row.borough = w.borough
    /\ StartsWith(row.building_class, w.class_prefix)
    /\ w.whole_buildings => row.apartment_number = <<>>
    /\ Len(w.neighborhoods) > 0 =>
           \E k \in 1..Len(w.neighborhoods) : Includes(row.neighborhood, w.neighborhoods[k])

\* Skip the subject property itself: sale.block === subject.block &&
\* sale.lot === subject.lot
IsSubjectSale(sale, subj) == sale.block = subj.block /\ sale.lot = subj.lot

PlutoAfterFetchStale(previous, outcome) ==
    IF outcome.kind = "row" THEN outcome.row
    ELSE IF outcome.kind = "null" THEN Null
    ELSE previous

\* let plutoData = null; try { plutoData = await getPropertyByBBL(...) } catch {}
\* (previous is the value the variable held in the iteration before)
PlutoAfterFetch(previous, outcome) ==
    IF outcome.kind = "row" THEN outcome.row ELSE Null

PricePerUnguarded(price, divisor) ==
    IF divisor = 0 THEN [t |-> "infinity"] ELSE Num(RoundDiv(price, divisor))

\* divisor > 0 ? Math.round(sale.sale_price / divisor) : null
PricePer(price, divisor) ==
    IF divisor > 0 THEN Num(RoundDiv(price, divisor)) ELSE Null

\* plutoData?.units_total and plutoData?.year_built: undefined when plutoData
\* is null
PlutoUnitsTotal(pd) == IF pd = Null THEN 0 ELSE pd.units_total
PlutoYearBuilt(pd) == IF pd = Null THEN Null ELSE pd.year_built

\* the loop body after the fetch: the comp pushed for one sale. zola_url is
\* kept as the borough, block and lot the URL is made of; pos is a history
\* field, the row's position in the ledger's answer.
MakeComp(subj, sale, pd, neighborhood, pos) ==
    LET units_total == IntOr(IntOr(PlutoUnitsTotal(pd), sale.units), 0)
        sqft == IntOr(sale.sqft, 0)
        year_built == JsOr(PlutoYearBuilt(pd), sale.year_built)
        is_same ==
            \/ Includes(ToUpperCase(sale.neighborhood), ToUpperCase(neighborhood))
            \/ Includes(ToUpperCase(neighborhood), ToUpperCase(sale.neighborhood))
        is_adjacent ==
            ~is_same /\ areNeighborhoodsCompatible(neighborhood, sale.neighborhood)
    IN [address |-> sale.address,
        sale_price |-> sale.sale_price,
        sale_date |-> sale.sale_date,
        neighborhood |-> sale.neighborhood,
        building_class |-> sale.building_class,
        units_total |-> units_total,
        sqft |-> sqft,
        year_built |-> year_built,
        price_per_unit |-> PricePer(sale.sale_price, units_total),
        price_per_sqft |-> PricePer(sale.sale_price, sqft),
        zola_url |-> <<sale.borough, sale.block, sale.lot>>,
        is_same_neighborhood |-> is_same,
        is_adjacent_neighborhood |-> is_adjacent,
        similarity_score |->
            calculateSimilarityScore(
                subj,
                [building_class |-> sale.building_class, units |-> units_total,
                 year_built |-> year_built, sqft |-> sqft],
                is_same, is_adjacent),
        pos |-> pos]

RECURSIVE InsertByScoreBeforeTies(_, _)
InsertByScoreBeforeTies(sorted, c) ==
    IF Len(sorted) = 0 THEN <<c>>
    ELSE IF Head(sorted).similarity_score > c.similarity_score
         THEN <<Head(sorted)>> \o InsertByScoreBeforeTies(Tail(sorted), c)
         ELSE <<c>> \o sorted

\* insertion of one comp into a list sorted by descending score: after every
\* element whose score is at least its own (Array.prototype.sort is stable)
RECURSIVE InsertByScore(_, _)
InsertByScore(sorted, c) ==
    IF Len(sorted) = 0 THEN <<c>>
    ELSE IF Head(sorted).similarity_score >= c.similarity_score
         THEN <<Head(sorted)>> \o InsertByScore(Tail(sorted), c)
         ELSE <<c>> \o sorted

RECURSIVE SortFrom(_, _)
SortFrom(sorted, rest) ==
    IF Len(rest) = 0 THEN sorted
    ELSE SortFrom(InsertByScore(sorted, Head(rest)), Tail(rest))

\* comps.sort((a, b) => b.similarity_score - a.similarity_score)
SortByScore(cs) == SortFrom(<<>>, cs)

\* Array.prototype.slice(0, end): a negative end counts from the end
Slice0(s, end) ==
    LET to == IF end < 0 THEN Max(Len(s) + end, 0) ELSE Min(end, Len(s))
    IN SubSeq(s, 1, to)

\* .filter(Boolean) on a list of `number | null`: null, NaN and 0 are dropped
RECURSIVE FilterBoolean(_)
FilterBoolean(vals) ==
    IF Len(vals) = 0 THEN <<>>
    ELSE IF Truthy(Head(vals)) THEN <<Head(vals).v>> \o FilterBoolean(Tail(vals))
    ELSE FilterBoolean(Tail(vals))

calculateAverageTruncating(nums) ==
    IF Len(nums) = 0 THEN Null ELSE Num(SumSeq(nums) \div Len(nums))

calculateAverage(nums) ==
    IF Len(nums) = 0 THEN Null ELSE Num(RoundDiv(SumSeq(nums), Len(nums)))

\* quantity && average ? Math.round(quantity * average) : null
ImpliedValue(quantity, average) ==
    IF quantity # 0 /\ Truthy(average) THEN Num(quantity * average.v) ELSE Null

\* the value searchComps returns after ranking
CompsResult(inp, code, subj, neighborhood, w, lim, sortedComps) ==
    LET topComps == Slice0(sortedComps, lim)
        avgPricePerUnit == calculateAverage(FilterBoolean(
            [k \in 1..Len(topComps) |-> topComps[k].price_per_unit]))
        avgPricePerSqft == calculateAverage(FilterBoolean(
            [k \in 1..Len(topComps) |-> topComps[k].price_per_sqft]))
    IN [kind |-> "comps",
        city |-> "nyc",
        subject |->
            [address |-> subj.address,
             borough |-> StrOr(getBoroughName(code), subj.borough),
             neighborhood |-> neighborhood,
             building_class |-> subj.building_class,
             units |-> subj.units,
             units_total |-> subj.units_total,
             year_built |-> subj.year_built,
             sqft |-> subj.building_area],
        search_criteria |->
            [building_class_category |-> w.class_prefix,
             neighborhoods_searched |-> w.neighborhoods,
             include_adjacent |-> inp.include_adjacent_neighborhoods # "false"],
        summary |->
            [comps_found |-> Len(topComps),
             avg_price_per_unit |-> avgPricePerUnit,
             avg_price_per_sqft |-> avgPricePerSqft,
             implied_value_by_unit |-> ImpliedValue(subj.units_total, avgPricePerUnit),
             implied_value_by_sqft |-> ImpliedValue(subj.building_area, avgPricePerSqft)],
        comps |-> topComps]

----------------------------------------------------------------------------
(* Specification SpecComps: one call of searchComps *)

MaxSales == 2

Manhattan == <<"M", "a", "n", "h", "a", "t", "t", "a", "n">>
UnknownBorough == <<"z", "z">>

\* the address a caller types; normalizeAddress changes every word of it
TypedAddress == <<"1", "0", " ", "e", " ", "5", "t", "h", " ", "s", "t">>

CompsInputs ==
    [city : {"nyc", "philadelphia"},
     address : {TypedAddress},
     limit : {Null, Num(0), Num(-1), Num(1), Num(60)},
     borough : {Manhattan, UnknownBorough},
     building_class : {EmptyStr, ClassC1},
     include_adjacent_neighborhoods : {"undefined", "false"}]

\* parcel records the resolver may return for the subject
SubjectParcels ==
    {[borough |-> <<"M", "N">>, block |-> <<"1">>, lot |-> <<"2">>,
      address |-> "10 MAIN STREET", building_class |-> ClassD4,
      units |-> 8, units_total |-> 10, year_built |-> Num(1920),
      building_area |-> 10000],
     [borough |-> <<"M", "N">>, block |-> <<"7">>, lot |-> <<"3">>,
      address |-> "7 SIDE STREET", building_class |-> ClassD1,
      units |-> 0, units_total |-> 0, year_built |-> Null,
      building_area |-> 0],
     [borough |-> <<"B", "K">>, block |-> <<"1">>, lot |-> <<"2">>,
      address |-> "10 EAST 5 STREET", building_class |-> ClassD4,
      units |-> 6, units_total |-> 6, year_built |-> Num(1925),
      building_area |-> 6000]}

\* rows of the sales ledger, as querySales maps them
SaleRows ==
    {[borough |-> <<"1">>, block |-> <<"1">>, lot |-> <<"2">>, address |-> "10 MAIN STREET",
      apartment_number |-> EmptyStr, sale_price |-> 900000, sale_date |-> "2024-03-01",
      building_class |-> ClassD4, neighborhood |-> Soho,
      units |-> 10, sqft |-> 10000, year_built |-> Num(1918)],
     [borough |-> <<"1">>, block |-> <<"0", "0", "0", "0", "1">>,
      lot |-> <<"0", "0", "0", "2">>, address |-> "10 MAIN ST",
      apartment_number |-> EmptyStr, sale_price |-> 800000, sale_date |-> "2021-06-30",
      building_class |-> ClassD4, neighborhood |-> Soho,
      units |-> 10, sqft |-> 10000, year_built |-> Num(1918)],
     [borough |-> <<"1">>, block |-> <<"7">>, lot |-> <<"3">>, address |-> "7 SIDE STREET",
      apartment_number |-> EmptyStr, sale_price |-> 500000, sale_date |-> "2023-01-15",
      building_class |-> ClassD1, neighborhood |-> Soho,
      units |-> 0, sqft |-> 0, year_built |-> Null],
     [borough |-> <<"1">>, block |-> <<"7">>, lot |-> <<"4">>, address |-> "9 SIDE STREET",
      apartment_number |-> EmptyStr, sale_price |-> 600000, sale_date |-> "2022-11-02",
      building_class |-> ClassD4, neighborhood |-> Noho,
      units |-> 5, sqft |-> 5000, year_built |-> Num(1950)],
     [borough |-> <<"1">>, block |-> <<"9">>, lot |-> <<"1">>, address |-> "1 PARK ROW",
      apartment_number |-> <<"2", "B">>, sale_price |-> 700000, sale_date |-> "2022-05-05",
      building_class |-> ClassD4, neighborhood |-> Soho,
      units |-> 1, sqft |-> 900, year_built |-> Num(1960)],
     [borough |-> <<"1">>, block |-> <<"9">>, lot |-> <<"2">>, address |-> "3 PARK ROW",
      apartment_number |-> EmptyStr, sale_price |-> 100000, sale_date |-> "2020-02-02",
      building_class |-> ClassD4, neighborhood |-> Soho,
      units |-> 4, sqft |-> 4000, year_built |-> Num(1931)],
     [borough |-> <<"3">>, block |-> <<"1">>, lot |-> <<"2">>, address |-> "10 MAIN STREET",
      apartment_number |-> EmptyStr, sale_price |-> 400000, sale_date |-> "2023-09-09",
      building_class |-> ClassD4, neighborhood |-> Soho,
      units |-> 6, sqft |-> 6000, year_built |-> Num(1925)],
     [borough |-> <<"1">>, block |-> <<"8">>, lot |-> <<"1">>, address |-> "8 WALK UP",
      apartment_number |-> EmptyStr, sale_price |-> 300000, sale_date |-> "2023-04-04",
      building_class |-> ClassC1, neighborhood |-> Noho,
      units |-> 6, sqft |-> 0, year_built |-> NaN]}

\* parcel records getPropertyByBBL may return for a sale's parcel (the fields
\* searchComps reads)
EnrichmentParcels ==
    {[units_total |-> 6, year_built |-> Num(1925)],
     [units_total |-> 0, year_built |-> Num(0)]}

Thrown == [kind |-> "throw"]
NotFound == [kind |-> "null"]
Found(r) == [kind |-> "row", row |-> r]

ErrorResult(message) == [kind |-> "error", error |-> message]

SubjectNotFoundNormalized(inp) ==
    [kind |-> "error", error |-> "Subject property not found", city |-> "nyc",
     address |-> normalizeAddress(inp.address), borough |-> inp.borough]

\* the value searchComps returns when the resolver returns null
SubjectNotFound(inp) ==
    [kind |-> "error", error |-> "Subject property not found", city |-> "nyc",
     address |-> inp.address, borough |-> inp.borough]

\* the value searchComps returns when determineNeighborhood returns null
NeighborhoodUndetermined(subj) ==
    [kind |-> "error",
     error |-> "Could not determine neighborhood for subject property",
     city |-> "nyc",
     subject |-> [address |-> subj.address,
                  building_class |-> subj.building_class,
                  units |-> IntOr(subj.units_total, subj.units),
                  year_built |-> subj.year_built]]

NeighborhoodGuardOff(outcome) == FALSE

\* if (!subjectNeighborhood)
NoNeighborhood(outcome) == outcome.kind = "null"

InitComps ==
    /\ AddrIdle /\ HoodIdle /\ ToolIdle /\ SalesIdle
    /\ ScoreIdle
    /\ RentIdle
    /\ TaxIdle
    /\ pc = "start"
    /\ input \in CompsInputs
    /\ limit = 0
    /\ boroughCode = <<>>
    /\ subject = Null
    /\ subjectNeighborhood = <<>>
    /\ where = Null
    /\ sales = <<>>
    /\ i = 0
    /\ plutoData = Null
    /\ comps = <<>>
    /\ result = Null
    /\ fetched = <<>>
    /\ failedAt = "none"
    /\ remote = <<>>

\* entry: the city check, the limit and the borough code
CompsStart ==
    /\ pc = "start"
    /\ IF input.city # "nyc"
       THEN /\ result' = ErrorResult("Comparable sales search only implemented for NYC")
            /\ pc' = "done"
            /\ UNCHANGED <<limit, boroughCode>>
       ELSE /\ limit' = EffectiveLimit(input.limit)
            /\ boroughCode' = getBoroughCode(input.borough)
            /\ IF boroughCode' = <<>>
               THEN result' = ErrorResult("Invalid borough") /\ pc' = "done"
               ELSE result' = result /\ pc' = "resolve"
    /\ UNCHANGED <<input, subject, subjectNeighborhood, where, sales, i, plutoData,
                   comps, fetched, failedAt, remote>>
    /\ UNCHANGED <<scoreVars, rentVars, taxVars,
                   addrVars, hoodVars, toolVars, salesVars>>

\* Step 1: await getPropertyByAddress(input.address, boroughCode)
ResolveSubject ==
    /\ pc = "resolve"
    /\ \E o \in {Thrown, NotFound} \cup {Found(r) : r \in SubjectParcels} :
        IF o.kind = "throw"
        THEN /\ pc' = "failed" /\ failedAt' = "resolve"
             /\ UNCHANGED <<subject, result>>
        ELSE IF o.kind = "null"
        THEN /\ result' = SubjectNotFound(input)
             /\ pc' = "done"
             /\ UNCHANGED <<subject, failedAt>>
        ELSE /\ subject' = o.row
             /\ pc' = "neighborhood"
             /\ UNCHANGED <<result, failedAt>>
    /\ remote' = Append(remote, "parcel_by_address")
    /\ UNCHANGED <<input, limit, boroughCode, subjectNeighborhood, where, sales, i,
                   plutoData, comps, fetched>>
    /\ UNCHANGED <<scoreVars, rentVars, taxVars,
                   addrVars, hoodVars, toolVars, salesVars>>

\* Step 2: await determineNeighborhood(subject.borough, subject.block, subject.lot)
DetermineSubjectNeighborhood ==
    /\ pc = "neighborhood"
    /\ \E o \in {Thrown, NotFound} \cup {Found(n) : n \in {Soho, <<"s", "o", "h", "o">>}} :
        IF o.kind = "throw"
        THEN /\ pc' = "failed" /\ failedAt' = "neighborhood"
             /\ UNCHANGED <<subjectNeighborhood, result>>
        ELSE IF NoNeighborhood(o)
        THEN /\ result' = NeighborhoodUndetermined(subject)
             /\ pc' = "done"
             /\ UNCHANGED <<subjectNeighborhood, failedAt>>
        ELSE /\ subjectNeighborhood' = IF o.kind = "row" THEN o.row ELSE <<>>
             /\ pc' = "query"
             /\ UNCHANGED <<result, failedAt>>
    /\ remote' = Append(remote, "ledger_neighborhood")
    /\ UNCHANGED <<input, limit, boroughCode, subject, where, sales, i, plutoData,
                   comps, fetched>>
    /\ UNCHANGED <<scoreVars, rentVars, taxVars,
                   addrVars, hoodVars, toolVars, salesVars>>

\* Steps 3 and 4: the filter is built and querySales(where, limit * 3) awaited.
\* The ledger answers with rows that satisfy the filter, at most $limit of
\* them; what it does with a negative $limit is not known, so it may answer
\* or fail.
QueryCandidates ==
    /\ pc = "query"
    /\ LET buildingClass == StrOr(input.building_class, subject.building_class)
           compatible == IF input.include_adjacent_neighborhoods # "false"
                         THEN getCompatibleNeighborhoods(subjectNeighborhood)
                         ELSE <<ToUpperCase(subjectNeighborhood)>>
           w == CandidateWhere(boroughCode, CharAt0(buildingClass), compatible)
           fetchLimit == limit * OverFetch
           matching == {r \in SaleRows : MatchesWhere(r, w)}
       IN /\ where' = w
          /\ \/ /\ pc' = "failed" /\ failedAt' = "candidates"
                /\ UNCHANGED <<sales, i>>
             \/ \E rows \in SeqsUpTo(matching, MaxSales) :
                    /\ fetchLimit >= 0 => Len(rows) <= fetchLimit
                    /\ sales' = rows
                    /\ i' = 1
                    /\ pc' = "enrich"
                    /\ UNCHANGED failedAt
    /\ remote' = Append(remote, "ledger_candidates")
    /\ UNCHANGED <<input, limit, boroughCode, subject, subjectNeighborhood, plutoData,
                   comps, result, fetched>>
    /\ UNCHANGED <<scoreVars, rentVars, taxVars,
                   addrVars, hoodVars, toolVars, salesVars>>

\* Step 5, one iteration: the sale is the subject's own and is skipped
EnrichSkip ==
    /\ pc = "enrich"
    /\ i <= Len(sales)
    /\ IsSubjectSale(sales[i], subject)
    /\ i' = i + 1
    /\ fetched' = Append(fetched, [kind |-> "skipped"])
    /\ UNCHANGED <<pc, input, limit, boroughCode, subject, subjectNeighborhood, where,
                   sales, plutoData, comps, result, failedAt, remote>>
    /\ UNCHANGED <<scoreVars, rentVars, taxVars,
                   addrVars, hoodVars, toolVars, salesVars>>

\* Step 5, one iteration: getPropertyByBBL is awaited inside try/catch, and the
\* comp is computed and pushed
EnrichFetch ==
    /\ pc = "enrich"
    /\ i <= Len(sales)
    /\ ~IsSubjectSale(sales[i], subject)
    /\ \E o \in {Thrown, NotFound} \cup {Found(r) : r \in EnrichmentParcels} :
        /\ plutoData' = PlutoAfterFetch(plutoData, o)
        /\ comps' = Append(comps,
               MakeComp(subject, sales[i], plutoData', subjectNeighborhood, i))
        /\ fetched' = Append(fetched, o)
    /\ i' = i + 1
    /\ remote' = Append(remote, "parcel_by_bbl")
    /\ UNCHANGED <<pc, input, limit, boroughCode, subject, subjectNeighborhood, where,
                   sales, result, failedAt>>
    /\ UNCHANGED <<scoreVars, rentVars, taxVars,
                   addrVars, hoodVars, toolVars, salesVars>>

\* after the loop: sort in place, take the top `limit`, summarise, return
RankAndReturn ==
    /\ pc = "enrich"
    /\ i > Len(sales)
    /\ comps' = SortByScore(comps)
    /\ result' = CompsResult(input, boroughCode, subject, subjectNeighborhood, where,
                             limit, comps')
    /\ pc' = "done"
    /\ UNCHANGED <<input, limit, boroughCode, subject, subjectNeighborhood, where,
                   sales, i, plutoData, fetched, failedAt, remote>>
    /\ UNCHANGED <<scoreVars, rentVars, taxVars,
                   addrVars, hoodVars, toolVars, salesVars>>

NextComps ==
    \/ CompsStart
    \/ ResolveSubject
    \/ DetermineSubjectNeighborhood
    \/ QueryCandidates
    \/ EnrichSkip
    \/ EnrichFetch
    \/ RankAndReturn

SpecComps == InitComps /\ [][NextComps]_vars

Returned == pc = "done" /\ result.kind = "comps"

\* the parcel a comp is about, read from the three components of its zola_url
CompKey(c) ==
    <<c.zola_url[1], NormalizeKeyPart(c.zola_url[2]), NormalizeKeyPart(c.zola_url[3])>>

\* C2: no entry of the returned comps list has a (borough, block, lot) key
\* equal to the resolved subject's key, whatever rows the ledger returned,
\* rows written with leading zeros included.
C2_SubjectNeverAComp ==
    Returned =>
        \A k \in 1..Len(result.comps) : CompKey(result.comps[k]) # ParcelKey(subject)

\* C3: in every comp, price_per_unit is null whenever the resolved total units
\* (the parcel's total units, else the sale's unit count) is 0 and
\* price_per_sqft is null whenever the sale's square footage is 0; a rate is
\* never NaN or infinite, and a number only ever comes from a positive divisor.
C3_RateOfComp(c) ==
    LET f == fetched[c.pos]
        parcelUnits == IF f.kind = "row" THEN f.row.units_total ELSE 0
    IN /\ c.units_total = IntOr(parcelUnits, sales[c.pos].units)
       /\ c.sqft = sales[c.pos].sqft
       /\ c.units_total = 0 => c.price_per_unit = Null
       /\ c.sqft = 0 => c.price_per_sqft = Null
       /\ c.price_per_unit.t \in {"null", "num"}
       /\ c.price_per_sqft.t \in {"null", "num"}
       /\ c.price_per_unit.t = "num" =>
              /\ c.units_total > 0
              /\ c.price_per_unit.v = RoundDiv(c.sale_price, c.units_total)
       /\ c.price_per_sqft.t = "num" =>
              /\ c.sqft > 0
              /\ c.price_per_sqft.v = RoundDiv(c.sale_price, c.sqft)

C3_RatesNullOnZeroDivisor ==
    /\ \A k \in 1..Len(comps) : C3_RateOfComp(comps[k])
    /\ Returned => \A k \in 1..Len(result.comps) : C3_RateOfComp(result.comps[k])

\* C3 witness: a returned comp whose parcel was found with 0 total units, whose
\* sale has 0 units and 0 square feet, next to one with both rates known
C3_Witness ==
    /\ Returned
    /\ Len(result.comps) = 2
    /\ \E k \in 1..2 :
        /\ fetched[result.comps[k].pos].kind = "row"
        /\ result.comps[k].units_total = 0
        /\ result.comps[k].sqft = 0
        /\ result.comps[k].price_per_unit = Null
        /\ result.comps[k].price_per_sqft = Null
    /\ \E k \in 1..2 :
        /\ result.comps[k].price_per_unit = Num(120000)
        /\ result.comps[k].price_per_sqft = Num(120)

\* C4: the returned comps are in non-increasing order of similarity_score, and
\* two comps of equal score are in the order in which the ledger listed their
\* sales.
C4_SortedStable ==
    Returned =>
        \A a, b \in 1..Len(result.comps) :
            a < b =>
                /\ result.comps[a].similarity_score >= result.comps[b].similarity_score
                /\ result.comps[a].similarity_score = result.comps[b].similarity_score
                       => result.comps[a].pos < result.comps[b].pos

\* C4 witness: two returned comps of equal score, for different sale rows
C4_Witness ==
    /\ Returned
    /\ Len(result.comps) = 2
    /\ result.comps[1].similarity_score = result.comps[2].similarity_score
    /\ result.comps[1].address # result.comps[2].address

\* the count the caller asked for, 10 when it gave none
RequestedCount == IF input.limit = Null THEN DefaultLimit ELSE input.limit.v

\* C5: for every requested count the number of comps returned is at most
\* min(requested, 50), with 10 for an unspecified count (so none for a count
\* of 0 or below), and summary.comps_found is the length of the returned list.
C5_AtMostRequested ==
    Returned =>
        /\ Len(result.comps) <= Max(0, Min(RequestedCount, MaxLimit))
        /\ result.summary.comps_found = Len(result.comps)

\* C6: a failed parcel fetch does not end the operation; the candidate it was
\* for is scored and ranked with the sale record's own unit count and year
\* built, every other candidate is enriched from its own fetch alone, and the
\* returned list is the ranked list cut to the limit.
C6_CompOfSale(c) ==
    LET s == sales[c.pos]
        f == fetched[c.pos]
    IN /\ f.kind # "skipped"
       /\ f.kind = "throw" =>
              /\ c.units_total = s.units
              /\ c.year_built = s.year_built
              /\ c.similarity_score =
                     calculateSimilarityScore(
                         subject,
                         [building_class |-> s.building_class, units |-> s.units,
                          year_built |-> s.year_built, sqft |-> s.sqft],
                         c.is_same_neighborhood, c.is_adjacent_neighborhood)
       /\ c = MakeComp(subject, s, IF f.kind = "row" THEN f.row ELSE Null,
                       subjectNeighborhood, c.pos)

C6_FetchFailureIsLocal ==
    /\ failedAt \in {"none", "resolve", "neighborhood", "candidates"}
    /\ \A k \in 1..Len(comps) : C6_CompOfSale(comps[k])
    /\ \A p \in 1..Len(fetched) :
           fetched[p].kind # "skipped" =>
               Cardinality({k \in 1..Len(comps) : comps[k].pos = p}) = 1
    /\ Returned =>
           /\ Len(fetched) = Len(sales)
           /\ result.comps = Slice0(comps, limit)

\* C6 witness: the fetch for the second sale failed after the fetch for the
\* first one had found a parcel; both comps are returned, the second with the
\* sale's own 5 units and year 1950
C6_Witness ==
    /\ Returned
    /\ Len(sales) = 2
    /\ fetched[1].kind = "row" /\ fetched[1].row.units_total = 6
    /\ fetched[2].kind = "throw"
    /\ Len(result.comps) = 2
    /\ \E k \in 1..2 :
        /\ result.comps[k].pos = 2
        /\ result.comps[k].units_total = 5
        /\ result.comps[k].year_built = Num(1950)
    /\ \E k \in 1..2 :
        /\ result.comps[k].pos = 1
        /\ result.comps[k].units_total = 6

----------------------------------------------------------------------------
(* The lookup tools: getProperty (get-property.ts), getTaxBenefits        *)
(* (get-tax-benefits.ts) and getSaleHistory (get-sale-history.ts)         *)

\* a remote call, as the history variables record it
RemoteCall(name, argument) == [call |-> name, arg |-> argument]

\* input.borough ? getBoroughCode(input.borough) : undefined
OptionalBoroughCode(borough) ==
    IF borough # <<>> THEN getBoroughCode(borough) ELSE <<>>

\* a || b on booleans held as flags
BoolFlag(b) == IF b THEN "true" ELSE "false"

\* the value each tool returns when the resolver returns null
PropertyNotFound(tool, inp) ==
    IF tool = "get_property"
    THEN [kind |-> "error", error |-> "Property not found", city |-> "nyc",
          address |-> inp.address, borough |-> inp.borough]
    ELSE [kind |-> "error",
          error |-> IF tool = "get_tax_benefits"
                    THEN "Property not found - cannot look up tax benefits without valid BBL"
                    ELSE "Property not found",
          city |-> "nyc",
          address |-> inp.address]

\* getTaxBenefits: input.borough_code && input.block && input.lot
HasBBLComponents(inp) ==
    inp.borough_code # <<>> /\ inp.block # <<>> /\ inp.lot # <<>>

\* the borough code, block and lot getTaxBenefits holds before its BBL check
TaxToolBBL(inp, property) ==
    IF HasBBLComponents(inp)
    THEN [boroughCode |-> inp.borough_code, block |-> inp.block, lot |-> inp.lot]
    ELSE [boroughCode |-> StrOr(getBoroughCode(property.borough), property.borough),
          block |-> property.block, lot |-> property.lot]

\* if (!boroughCode || !block || !lot)
IncompleteBBL(b) == b.boroughCode = <<>> \/ b.block = <<>> \/ b.lot = <<>>

\* getProperty: getBoroughCode(property.borough) || boroughCode
PropertyBoroughCode(property, code) == StrOr(getBoroughCode(property.borough), code)

\* calculateRentInfoWithTaxBenefits
calculateRentInfoWithTaxBenefits(property, taxBenefits) ==
    calculateRentInfo(
        [year_built |-> property.year_built,
         units |-> IntOr(property.units_total, property.units),
         building_class |-> property.building_class,
         owner |-> property.owner,
         has_421a |-> BoolFlag(taxBenefits.has_421a),
         has_j51 |-> BoolFlag(taxBenefits.has_j51)])

\* sales.sort((a, b) => new Date(b.sale_date) - new Date(a.sale_date)); a
\* sale_date is modelled by its day number
RECURSIVE InsertByDate(_, _)
InsertByDate(sorted, sale) ==
    IF Len(sorted) = 0 THEN <<sale>>
    ELSE IF Head(sorted).sale_date >= sale.sale_date
         THEN <<Head(sorted)>> \o InsertByDate(Tail(sorted), sale)
         ELSE <<sale>> \o sorted

RECURSIVE SortByDateFrom(_, _)
SortByDateFrom(sorted, rest) ==
    IF Len(rest) = 0 THEN sorted
    ELSE SortByDateFrom(InsertByDate(sorted, Head(rest)), Tail(rest))

----------------------------------------------------------------------------
(* Specification SpecTools: one call of one lookup tool *)

KeyBlock == <<"1">>
KeyLot == <<"2">>

ToolInputs ==
    [city : {"nyc", "philadelphia"},
     address : {TypedAddress, EmptyStr},
     borough : {EmptyStr, Manhattan, UnknownBorough},
     include_tax_benefits : {"undefined", "false"},
     borough_code : {EmptyStr, <<"1">>, <<"M", "N">>},
     block : {EmptyStr, KeyBlock, <<"1", "2", "3", "4", "5", "6">>},
     lot : {EmptyStr, KeyLot}]

\* what each tool reads of its input: the other fields are absent
ToolInputOf(tool) ==
    {inp \in ToolInputs :
        /\ tool # "get_tax_benefits" =>
               /\ inp.address = TypedAddress
               /\ inp.borough_code = EmptyStr /\ inp.block = EmptyStr
               /\ inp.lot = EmptyStr
        /\ tool # "get_property" => inp.include_tax_benefits = "undefined"
        /\ tool = "get_tax_benefits" =>
               /\ inp.block = EmptyStr <=> inp.lot = EmptyStr
               /\ inp.borough_code # EmptyStr => inp.borough = EmptyStr}

\* parcel records the resolver may return (the fields the tools read)
ToolParcels ==
    {[borough |-> <<"M", "N">>, block |-> KeyBlock, lot |-> KeyLot,
      address |-> "10 EAST 5 STREET", building_class |-> ClassC1,
      units |-> 8, units_total |-> 0, year_built |-> Num(1930),
      owner |-> OwnerPrivate],
     [borough |-> <<"M", "N">>, block |-> KeyBlock, lot |-> EmptyStr,
      address |-> "10 EAST 5 STREET", building_class |-> ClassC1,
      units |-> 8, units_total |-> 10, year_built |-> Num(1930),
      owner |-> OwnerPrivate],
     [borough |-> EmptyStr, block |-> KeyBlock, lot |-> KeyLot,
      address |-> "10 EAST 5 AVENUE", building_class |-> ClassD4,
      units |-> 3, units_total |-> 3, year_built |-> Null,
      owner |-> OwnerLowerNycha]}

\* what getTaxBenefitsByBBL found (the flags the tools read)
ToolBenefits == [has_421a : BOOLEAN, has_j51 : BOOLEAN]

\* sales of one parcel, as getSalesByBBL returns them
ToolSaleRows == {[sale_date |-> 19000], [sale_date |-> 19700]}

InitTools ==
    /\ ScoreIdle /\ RentIdle /\ TaxIdle /\ CompsIdle
    /\ AddrIdle /\ HoodIdle /\ SalesIdle
    /\ qpc = "start"
    /\ qOp \in {"get_property", "get_tax_benefits", "get_sale_history"}
    /\ qInput \in ToolInputOf(qOp)
    /\ qBoroughCode = <<>>
    /\ qProperty = Null
    /\ qRemote = <<>>
    /\ qResult = Null

\* entry of each tool, up to its first await
ToolStart ==
    /\ qpc = "start"
    /\ IF qInput.city # "nyc"
       THEN /\ qResult' = [kind |-> "error", error |-> "not implemented"]
            /\ qpc' = "done"
            /\ UNCHANGED qBoroughCode
       ELSE IF qOp = "get_tax_benefits" /\ HasBBLComponents(qInput)
       THEN /\ qBoroughCode' = qInput.borough_code
            /\ qpc' = "benefits"
            /\ UNCHANGED qResult
       ELSE IF qOp = "get_tax_benefits" /\ qInput.address = <<>>
       THEN /\ qResult' = [kind |-> "error",
                           error |-> "Must provide either address+borough or borough_code+block+lot",
                           city |-> "nyc"]
            /\ qpc' = "done"
            /\ UNCHANGED qBoroughCode
       ELSE /\ qBoroughCode' = OptionalBoroughCode(qInput.borough)
            /\ qpc' = "resolve"
            /\ UNCHANGED qResult
    /\ UNCHANGED <<qOp, qInput, qProperty, qRemote>>
    /\ UNCHANGED <<scoreVars, rentVars, taxVars, compsVars,
                   addrVars, hoodVars, salesVars>>

\* await nycPluto.getPropertyByAddress(input.address, boroughCode), and what
\* each tool does with the answer up to its next await or return
ToolResolve ==
    /\ qpc = "resolve"
    /\ qRemote' = Append(qRemote, RemoteCall("parcel_by_address", qInput.address))
    /\ \E o \in {Thrown, NotFound} \cup {Found(r) : r \in ToolParcels} :
        IF o.kind = "throw"
        THEN /\ qpc' = "failed"
             /\ UNCHANGED <<qProperty, qResult, qBoroughCode>>
        ELSE IF o.kind = "null"
        THEN /\ qResult' = PropertyNotFound(qOp, qInput)
             /\ qpc' = "done"
             /\ UNCHANGED <<qProperty, qBoroughCode>>
        ELSE /\ qProperty' = o.row
             /\ IF qOp = "get_property"
                THEN /\ UNCHANGED qBoroughCode
                     /\ IF /\ qInput.include_tax_benefits # "false"
                           /\ o.row.block # <<>> /\ o.row.lot # <<>>
                           /\ PropertyBoroughCode(o.row, qBoroughCode) # <<>>
                        THEN qpc' = "benefits" /\ UNCHANGED qResult
                        ELSE /\ qpc' = "done"
                             /\ qResult' = [kind |-> "property", property |-> o.row]
                ELSE IF qOp = "get_tax_benefits"
                THEN /\ qBoroughCode' = TaxToolBBL(qInput, o.row).boroughCode
                     /\ IF IncompleteBBL(TaxToolBBL(qInput, o.row))
                        THEN /\ qpc' = "done"
                             /\ qResult' = [kind |-> "error",
                                            error |-> "Could not determine BBL for property",
                                            city |-> "nyc"]
                        ELSE qpc' = "benefits" /\ UNCHANGED qResult
                ELSE /\ qpc' = "history"
                     /\ UNCHANGED <<qBoroughCode, qResult>>
    /\ UNCHANGED <<qOp, qInput>>
    /\ UNCHANGED <<scoreVars, rentVars, taxVars, compsVars,
                   addrVars, hoodVars, salesVars>>

\* await nycTaxBenefits.getTaxBenefitsByBBL(...) in getProperty (inside
\* try/catch) and in getTaxBenefits, and the return that follows
ToolTaxBenefits ==
    /\ qpc = "benefits"
    /\ LET bbl == IF qOp = "get_property"
                  THEN formatBBL(PropertyBoroughCode(qProperty, qBoroughCode),
                                 qProperty.block, qProperty.lot)
                  ELSE formatBBL(TaxToolBBL(qInput, qProperty).boroughCode,
                                 TaxToolBBL(qInput, qProperty).block,
                                 TaxToolBBL(qInput, qProperty).lot)
       IN /\ qRemote' = Append(qRemote, RemoteCall("tax_benefits", bbl))
          /\ \E o \in {Thrown} \cup {Found(b) : b \in ToolBenefits} :
              IF qOp = "get_property"
              THEN qResult' =
                       IF o.kind = "row" /\ (o.row.has_421a \/ o.row.has_j51)
                       THEN [kind |-> "property", property |-> qProperty,
                             rent_info |->
                                 calculateRentInfoWithTaxBenefits(qProperty, o.row),
                             tax_benefits_summary |-> o.row]
                       ELSE [kind |-> "property", property |-> qProperty]
              ELSE /\ o.kind = "row"
                   /\ qResult' = [kind |-> "benefits", city |-> "nyc", bbl |-> bbl,
                                  benefits |-> o.row]
    /\ qpc' = "done"
    /\ UNCHANGED <<qOp, qInput, qBoroughCode, qProperty>>
    /\ UNCHANGED <<scoreVars, rentVars, taxVars, compsVars,
                   addrVars, hoodVars, salesVars>>

\* await nycSales.getSalesByBBL(property.borough, property.block,
\* property.lot, 50), and the return that follows
ToolSaleHistory ==
    /\ qpc = "history"
    /\ qRemote' = Append(qRemote,
           RemoteCall("sales_by_bbl",
                      qProperty.borough \o <<"/">> \o NormalizeKeyPart(qProperty.block)
                          \o <<"/">> \o NormalizeKeyPart(qProperty.lot)))
    /\ \/ /\ qpc' = "failed"
          /\ UNCHANGED qResult
       \/ \E rows \in SeqsUpTo(ToolSaleRows, 2) :
              /\ qResult' = [kind |-> "history", city |-> "nyc",
                             address |-> qProperty.address, count |-> Len(rows),
                             sales |-> SortByDateFrom(<<>>, rows)]
              /\ qpc' = "done"
    /\ UNCHANGED <<qOp, qInput, qBoroughCode, qProperty>>
    /\ UNCHANGED <<scoreVars, rentVars, taxVars, compsVars,
                   addrVars, hoodVars, salesVars>>

NextTools ==
    \/ ToolStart
    \/ ToolResolve
    \/ ToolTaxBenefits
    \/ ToolSaleHistory

SpecTools == InitTools /\ [][NextTools]_vars

----------------------------------------------------------------------------
(* Specification SpecLookup: one call of searchComps or of a lookup tool *)

InitLookup == InitComps \/ InitTools

NextLookup == NextComps \/ NextTools

SpecLookup == InitLookup /\ [][NextLookup]_vars

\* the resolver was called and returned null (not a record, not an exception)
CompsSubjectMissing == remote # <<>> /\ subject = Null /\ pc # "failed"
ToolParcelMissing ==
    /\ qRemote # <<>>
    /\ qRemote[1].call = "parcel_by_address"
    /\ qProperty = Null
    /\ qpc # "failed"

\* C12: in get-property, search-comps, get-tax-benefits (by address) and
\* get-sale-history, when parcel resolution yields no record the operation
\* returns an error value that carries the caller's address as it was given,
\* and the resolver call is the only remote call the operation ever issues.
C12_NotFoundEchoesAddress ==
    /\ CompsSubjectMissing =>
           /\ pc = "done"
           /\ result.kind = "error"
           /\ result.address = input.address
           /\ remote = <<"parcel_by_address">>
           /\ where = Null /\ sales = <<>> /\ fetched = <<>>
    /\ ToolParcelMissing =>
           /\ qpc = "done"
           /\ qResult.kind = "error"
           /\ qResult.address = qInput.address
           /\ Len(qRemote) = 1

\* C12 witness: searchComps has returned after the resolver found nothing for
\* an address that normalization would change
C12_Witness ==
    /\ CompsSubjectMissing
    /\ input.address = TypedAddress
    /\ normalizeAddress(input.address) # input.address
    /\ result.error = "Subject property not found"
    /\ result.address = TypedAddress

\* determineNeighborhood was called and returned no label
CompsLabelMissing ==
    /\ Len(remote) >= 2
    /\ remote[2] = "ledger_neighborhood"
    /\ subjectNeighborhood = <<>>
    /\ pc # "failed"

\* C13: in search-comps, when the neighborhood cascade ends without a label
\* the operation returns an error, and it issues no candidate-set query and
\* no per-candidate parcel fetch, and returns no comps.
C13_NoLabelNoSearch ==
    CompsLabelMissing =>
        /\ pc = "done"
        /\ result = NeighborhoodUndetermined(subject)
        /\ remote = <<"parcel_by_address", "ledger_neighborhood">>
        /\ where = Null
        /\ sales = <<>>
        /\ fetched = <<>>
        /\ comps = <<>>

\* C13 witness: the subject was resolved and the cascade gave no label
C13_Witness ==
    /\ CompsLabelMissing
    /\ subject # Null
    /\ pc = "done"
    /\ result.kind = "error"
    /\ result.subject.address = subject.address

\* the caller gave a borough token that getBoroughCode does not know
UnknownToken(token) == token # <<>> /\ getBoroughCode(token) = <<>>

\* C14: in every operation that accepts a borough token, an unrecognized
\* token makes the operation return an error without any remote query
\* having been issued.
C14_UnknownBoroughFailsFast ==
    /\ (pc # "idle" /\ input.city = "nyc" /\ UnknownToken(input.borough)) =>
           /\ remote = <<>>
           /\ pc = "done" => result.kind = "error"
    /\ (qpc # "idle" /\ qInput.city = "nyc" /\ UnknownToken(qInput.borough)) =>
           /\ qRemote = <<>>
           /\ qpc = "done" => qResult.kind = "error"

\* C15: in search-comps the only remote calls whose failure ends the whole
\* operation are the parcel resolution and the candidate-set query; a failed
\* neighborhood-inference query or per-candidate fetch leaves it completing.
C15_OnlyPrimaryCallsFatal ==
    pc = "failed" => failedAt \in {"resolve", "candidates"}

\* C17: the borough required by the candidate filter is the borough of the
\* resolved subject parcel, also when the subject lies in another borough
\* than the one the caller named.
C17_FilterBoroughIsSubjects ==
    where # Null => where.borough = ParcelKey(subject)[1]

----------------------------------------------------------------------------
(* Specification SpecResolve: one call of getPropertyByAddress *)

AddressUpper == <<"1", "0", " ", "E", "A", "S", "T", " ", "5", " ", "S", "T", "R", "E", "E", "T">>
AddressAvenue == <<"1", "0", " ", "E", "A", "S", "T", " ", "5", " ", "A", "V", "E", "N", "U", "E">>
AddressLeadingBlank == <<" ", "1", "0", " ", "e", " ", "5", "t", "h", " ", "s", "t">>
AddressNoNumber == <<"e", "a", "s", "t", " ", "5", " ", "s", "t">>

\* rows of the parcel registry
RegistryParcels ==
    {[address |-> AddressUpper, borocode |-> <<"1">>, borough |-> <<"M", "N">>,
      block |-> <<"1">>, lot |-> <<"2">>],
     [address |-> AddressUpper, borocode |-> <<"3">>, borough |-> <<"B", "K">>,
      block |-> <<"1">>, lot |-> <<"2">>],
     [address |-> AddressAvenue, borocode |-> <<"1">>, borough |-> <<"M", "N">>,
      block |-> <<"9">>, lot |-> <<"1">>]}

ResolveArgs ==
    [address : {TypedAddress, AddressUpper, AddressLeadingBlank, AddressNoNumber},
     boroughCode : {EmptyStr, <<"1">>, <<"3">>}]

\* the answers queryPluto(where, 5) can give: the rows the WHERE clause
\* selects, in any order (the query names no order)
RegistryAnswers(registry, w) ==
    LET matching == {r \in registry : PlutoMatches(r, w)}
    IN {rows \in [1..Cardinality(matching) -> matching] :
            \A a, b \in 1..Cardinality(matching) : a # b => rows[a] # rows[b]}

\* return results[0] || null
FirstOrNull(results) == IF Len(results) > 0 THEN Found(results[1]) ELSE NotFound

InitResolve ==
    /\ ScoreIdle /\ RentIdle /\ TaxIdle /\ CompsIdle
    /\ HoodIdle /\ ToolIdle /\ SalesIdle
    /\ apc = "query1"
    /\ aArgs \in ResolveArgs
    /\ aRegistry \in SUBSET RegistryParcels
    /\ aQueries = <<>>
    /\ aResults = <<>>
    /\ aReturn = Null

\* one awaited queryPluto: it throws, or results is assigned and the
\* function moves to the next query its conditions select, or returns
AddressQuery(at, w) ==
    /\ apc = at
    /\ aQueries' = Append(aQueries, w)
    /\ \/ /\ apc' = "failed"
          /\ UNCHANGED <<aResults, aReturn>>
       \/ \E rows \in RegistryAnswers(aRegistry, w) :
              /\ aResults' = rows
              /\ apc' = IF at = "query1" /\ WantsQuery2(rows, aArgs.address)
                        THEN "query2"
                        ELSE IF at # "query3" /\ WantsQuery3(rows, aArgs.boroughCode)
                        THEN "query3"
                        ELSE "done"
              /\ aReturn' = IF apc' = "done" THEN FirstOrNull(rows) ELSE aReturn
    /\ UNCHANGED <<aArgs, aRegistry>>
    /\ UNCHANGED <<scoreVars, rentVars, taxVars, compsVars,
                   hoodVars, toolVars, salesVars>>

AddressQuery1 == AddressQuery("query1", Query1Where(aArgs.address, aArgs.boroughCode))

AddressQuery2 == AddressQuery("query2", Query2Where(aArgs.address, aArgs.boroughCode))

AddressQuery3 == AddressQuery("query3", Query3Where(aArgs.address))

NextResolve ==
    \/ AddressQuery1
    \/ AddressQuery2
    \/ AddressQuery3

SpecResolve == InitResolve /\ [][NextResolve]_vars

\* C16: when the first query returns nothing and an area code was supplied,
\* the next query issued is the same address match without the area
\* constraint, and the query on the street number and the first two words of
\* the street name comes only after that retry.
C16_RetryBeforePartialMatch ==
    (Len(aQueries) >= 2 /\ aArgs.boroughCode # <<>>) =>
        aQueries[2] = Query3Where(aArgs.address)

----------------------------------------------------------------------------
(* determineNeighborhood and mostCommon (search-comps.ts)                  *)

DigitChars == <<"0", "1", "2", "3", "4", "5", "6", "7", "8", "9">>

DigitValue(c) == (CHOOSE k \in 1..Len(DigitChars) : DigitChars[k] = c) - 1

RECURSIVE DigitsValue(_, _)
DigitsValue(acc, ds) ==
    IF Len(ds) = 0 THEN acc
    ELSE DigitsValue(acc * Len(DigitChars) + DigitValue(Head(ds)), Tail(ds))

\* parseInt on a text without sign or leading blanks: the number its leading
\* digits write, NaN when it starts with none
ParseInt(text) ==
    IF LeadingDigits(text) = <<>> THEN NaN
    ELSE Num(DigitsValue(0, LeadingDigits(text)))

\* a positive integer inside a template literal
RECURSIVE NatToString(_)
NatToString(n) ==
    IF n < Len(DigitChars) THEN <<DigitChars[n + 1]>>
    ELSE NatToString(n \div Len(DigitChars)) \o <<DigitChars[(n % Len(DigitChars)) + 1]>>

\* a query to the sales ledger on a parcel or a block: the conditions of its
\* WHERE clause (lot is empty when it has no lot condition) and its $limit
LedgerQuery(boro, block, lot, positivePrice, max) ==
    [borough |-> boro, block |-> block, lot |-> lot,
     sale_price_positive |-> positivePrice, limit |-> max]

\* getSalesByBBL(borough, block, lot, 1)
ExactQuery(key) ==
    LedgerQuery(key.borough, NormalizeKeyPart(key.block), NormalizeKeyPart(key.lot),
                FALSE, 1)

\* const boroughCode = getBoroughCode(borough) || borough
HoodBoroughCode(key) == StrOr(getBoroughCode(key.borough), key.borough)

\* querySales(`borough='..' AND block='${block}' AND sale_price > 0`, 5)
BlockQuery(key) == LedgerQuery(HoodBoroughCode(key), key.block, <<>>, TRUE, 5)

\* querySales(`borough='..' AND block='${adjBlock}' AND sale_price > 0`, 3)
AdjacentQuery(key, adjBlock) ==
    LedgerQuery(HoodBoroughCode(key), NatToString(adjBlock), <<>>, TRUE, 3)

AdjacentBlocksFollowingFirst(block) ==
    LET blockNum == ParseInt(block)
    IN IF blockNum = NaN THEN <<>>
       ELSE <<blockNum.v + 1>> \o (IF blockNum.v - 1 > 0 THEN <<blockNum.v - 1>> ELSE <<>>)

\* [blockNum - 1, blockNum + 1].filter(b => b > 0), empty when blockNum is NaN
AdjacentBlocks(block) ==
    LET blockNum == ParseInt(block)
    IN IF blockNum = NaN THEN <<>>
       ELSE (IF blockNum.v - 1 > 0 THEN <<blockNum.v - 1>> ELSE <<>>)
            \o (IF blockNum.v + 1 > 0 THEN <<blockNum.v + 1>> ELSE <<>>)

\* mostCommon, first loop: counts.set(item, (counts.get(item) || 0) + 1); the
\* Map is a sequence of <<item, count>> in insertion order
RECURSIVE CountItems(_, _)
CountItems(counts, arr) ==
    IF Len(arr) = 0 THEN counts
    ELSE LET item == Head(arr)
             known == \E k \in 1..Len(counts) : counts[k][1] = item
         IN CountItems(
                IF known
                THEN [k \in 1..Len(counts) |->
                         IF counts[k][1] = item
                         THEN <<item, counts[k][2] + 1>>
                         ELSE counts[k]]
                ELSE Append(counts, <<item, 1>>),
                Tail(arr))

\* mostCommon, second loop: if (count > maxCount) { maxCount = count; maxItem = item }
RECURSIVE ScanMax(_, _, _)
ScanMax(counts, maxCount, maxItem) ==
    IF Len(counts) = 0 THEN maxItem
    ELSE IF Head(counts)[2] > maxCount
         THEN ScanMax(Tail(counts), Head(counts)[2], Head(counts)[1])
         ELSE ScanMax(Tail(counts), maxCount, maxItem)

RECURSIVE ScanMaxLastWins(_, _, _)
ScanMaxLastWins(counts, maxCount, maxItem) ==
    IF Len(counts) = 0 THEN maxItem
    ELSE IF Head(counts)[2] >= maxCount
         THEN ScanMaxLastWins(Tail(counts), Head(counts)[2], Head(counts)[1])
         ELSE ScanMaxLastWins(Tail(counts), maxCount, maxItem)

mostCommonLastWins(arr) == ScanMaxLastWins(CountItems(<<>>, arr), 0, arr[1])

\* mostCommon(arr) for a non-empty arr
mostCommon(arr) == ScanMax(CountItems(<<>>, arr), 0, arr[1])

\* sales.map(s => s.neighborhood).filter(Boolean)
LabelsOf(rows) ==
    SelectSeq([k \in 1..Len(rows) |-> rows[k].neighborhood], LAMBDA label : label # <<>>)

StepNeighborhoodsCarried(rows) == hNeighborhoods \o LabelsOf(rows)

\* const neighborhoods = ...: the array a step of the cascade builds
StepNeighborhoods(rows) == LabelsOf(rows)

----------------------------------------------------------------------------
(* Specification SpecHood: determineNeighborhood called twice for the same *)
(* parcel, the ledger answering a repeated query as it did the first time  *)

MaxHoodRows == 5

HoodKeys ==
    [borough : {<<"M", "N">>},
     block : {<<"1">>, <<"0", "0", "0", "5">>, <<"B">>},
     lot : {KeyLot}]

\* rows of the sales ledger (the field the cascade reads)
HoodRows == {[neighborhood |-> label] : label \in {EmptyStr, Soho, Noho, Chelsea}}

\* what querySales can do for a query: throw (a status that is not ok), or
\* return at most $limit rows
LedgerAnswers(q) ==
    {Thrown} \cup
    {[kind |-> "ok", rows |-> rows] : rows \in SeqsUpTo(HoodRows, Min(q.limit, MaxHoodRows))}

\* the ledger answers a query it has answered before in the same way
Answered(q) == \E k \in 1..Len(hAnswers) : hAnswers[k].query = q
AnswerGiven(q) == hAnswers[CHOOSE k \in 1..Len(hAnswers) : hAnswers[k].query = q].answer
AnswersNow(q) == IF Answered(q) THEN {AnswerGiven(q)} ELSE LedgerAnswers(q)
Recorded(q, answer) ==
    IF Answered(q) THEN hAnswers ELSE Append(hAnswers, [query |-> q, answer |-> answer])

InitHood ==
    /\ ScoreIdle /\ RentIdle /\ TaxIdle /\ CompsIdle
    /\ AddrIdle /\ ToolIdle /\ SalesIdle
    /\ hpc = "exact"
    /\ hRun = 1
    /\ hKey \in HoodKeys
    /\ hAnswers = <<>>
    /\ hAdjacent = <<>>
    /\ hNeighborhoods = <<>>
    /\ hQueries = <<>>
    /\ hLabel = Null
    /\ hFirst = Null

\* First try: sales on the exact property
HoodExact ==
    /\ hpc = "exact"
    /\ LET q == ExactQuery(hKey)
       IN /\ hQueries' = Append(hQueries, q)
          /\ \E answer \in AnswersNow(q) :
              /\ hAnswers' = Recorded(q, answer)
              /\ IF answer.kind = "throw"
                 THEN hpc' = "failed" /\ UNCHANGED hLabel
                 ELSE IF Len(answer.rows) > 0 /\ answer.rows[1].neighborhood # <<>>
                 THEN hpc' = "done" /\ hLabel' = Found(answer.rows[1].neighborhood)
                 ELSE hpc' = "block" /\ UNCHANGED hLabel
    /\ UNCHANGED <<hRun, hKey, hAdjacent, hNeighborhoods, hFirst>>
    /\ UNCHANGED <<scoreVars, rentVars, taxVars, compsVars,
                   addrVars, toolVars, salesVars>>

\* Second try: sales on the same block; when it gives no label the adjacent
\* blocks are computed and the loop entered, or null returned
HoodBlock ==
    /\ hpc = "block"
    /\ LET q == BlockQuery(hKey)
       IN /\ hQueries' = Append(hQueries, q)
          /\ \E answer \in AnswersNow(q) :
              /\ hAnswers' = Recorded(q, answer)
              /\ IF answer.kind = "throw"
                 THEN /\ hpc' = "failed"
                      /\ UNCHANGED <<hLabel, hNeighborhoods, hAdjacent>>
                 ELSE IF Len(answer.rows) = 0
                 THEN /\ UNCHANGED <<hLabel, hNeighborhoods>>
                      /\ hAdjacent' = AdjacentBlocks(hKey.block)
                      /\ hpc' = IF hAdjacent' = <<>> THEN "done" ELSE "adjacent"
                 ELSE /\ hNeighborhoods' = StepNeighborhoods(answer.rows)
                      /\ IF Len(hNeighborhoods') > 0
                         THEN /\ hpc' = "done"
                              /\ hLabel' = Found(mostCommon(hNeighborhoods'))
                              /\ UNCHANGED hAdjacent
                         ELSE /\ UNCHANGED hLabel
                              /\ hAdjacent' = AdjacentBlocks(hKey.block)
                              /\ hpc' = IF hAdjacent' = <<>> THEN "done" ELSE "adjacent"
    /\ UNCHANGED <<hRun, hKey, hFirst>>
    /\ UNCHANGED <<scoreVars, rentVars, taxVars, compsVars,
                   addrVars, toolVars, salesVars>>

\* Third try, one iteration of the loop over the adjacent blocks
HoodAdjacent ==
    /\ hpc = "adjacent"
    /\ LET q == AdjacentQuery(hKey, Head(hAdjacent))
       IN /\ hQueries' = Append(hQueries, q)
          /\ \E answer \in AnswersNow(q) :
              /\ hAnswers' = Recorded(q, answer)
              /\ IF answer.kind = "throw"
                 THEN /\ hpc' = "failed"
                      /\ UNCHANGED <<hLabel, hNeighborhoods, hAdjacent>>
                 ELSE IF Len(answer.rows) = 0
                 THEN /\ UNCHANGED <<hLabel, hNeighborhoods>>
                      /\ hAdjacent' = Tail(hAdjacent)
                      /\ hpc' = IF hAdjacent' = <<>> THEN "done" ELSE "adjacent"
                 ELSE /\ hNeighborhoods' = StepNeighborhoods(answer.rows)
                      /\ IF Len(hNeighborhoods') > 0
                         THEN /\ hpc' = "done"
                              /\ hLabel' = Found(mostCommon(hNeighborhoods'))
                              /\ UNCHANGED hAdjacent
                         ELSE /\ UNCHANGED hLabel
                              /\ hAdjacent' = Tail(hAdjacent)
                              /\ hpc' = IF hAdjacent' = <<>> THEN "done" ELSE "adjacent"
    /\ UNCHANGED <<hRun, hKey, hFirst>>
    /\ UNCHANGED <<scoreVars, rentVars, taxVars, compsVars,
                   addrVars, toolVars, salesVars>>

\* the first call has ended (returned or thrown); the function is called
\* again with the same arguments
HoodCallAgain ==
    /\ hRun = 1
    /\ hpc \in {"done", "failed"}
    /\ hFirst' = [ended |-> hpc, label |-> hLabel, queries |-> hQueries]
    /\ hRun' = 2
    /\ hpc' = "exact"
    /\ hQueries' = <<>>
    /\ hLabel' = Null
    /\ UNCHANGED <<hKey, hAnswers, hAdjacent, hNeighborhoods>>
    /\ UNCHANGED <<scoreVars, rentVars, taxVars, compsVars,
                   addrVars, toolVars, salesVars>>

NextHood ==
    \/ HoodExact
    \/ HoodBlock
    \/ HoodAdjacent
    \/ HoodCallAgain

SpecHood == InitHood /\ [][NextHood]_vars

IsPrefix(short, long) ==
    Len(short) <= Len(long) /\ \A k \in 1..Len(short) : short[k] = long[k]

\* C19: determineNeighborhood is deterministic: a second call for the same
\* parcel, to which the ledger answers every query as it answered it the
\* first time, issues the same sequence of queries and ends in the same way
\* with the same label (or with no label).
C19_SameAnswersSameLabel ==
    hRun = 2 =>
        /\ IsPrefix(hQueries, hFirst.queries)
        /\ hpc \in {"done", "failed"} =>
               /\ hpc = hFirst.ended
               /\ hLabel = hFirst.label
               /\ hQueries = hFirst.queries

\* C19 witness: the second call has returned the label that the mode of the
\* following block's rows gave, after four queries
C19_Witness ==
    /\ hRun = 2
    /\ hpc = "done"
    /\ Len(hQueries) = 4
    /\ hNeighborhoods = <<Soho, Noho, Noho>>
    /\ hLabel = Found(Noho)
    /\ hFirst.label = Found(Noho)

\* the queries of a cascade that finds no label, in the order of the steps
FullCascade(key) ==
    LET blockNum == ParseInt(key.block)
    IN <<ExactQuery(key), BlockQuery(key)>>
       \o (IF blockNum # NaN /\ blockNum.v - 1 > 0
           THEN <<AdjacentQuery(key, blockNum.v - 1)>> ELSE <<>>)
       \o (IF blockNum # NaN
           THEN <<AdjacentQuery(key, blockNum.v + 1)>> ELSE <<>>)

\* the k-th query of the current call was answered with rows that give a label
StepYields(k) ==
    LET answer == AnswerGiven(hQueries[k])
    IN /\ answer.kind = "ok"
       /\ IF k = 1
          THEN Len(answer.rows) > 0 /\ answer.rows[1].neighborhood # <<>>
          ELSE \E j \in 1..Len(answer.rows) : answer.rows[j].neighborhood # <<>>

\* C20: the cascade queries the exact parcel, then the same block (limit 5),
\* then the preceding block, then the following block (limit 3 each, blocks
\* numbered 0 or less skipped); it stops at the first step that yields a
\* label, issues no query after it, and returns null only when every step
\* gave none.
C20_CascadeOrder ==
    /\ IsPrefix(hQueries, FullCascade(hKey))
    /\ \A k \in 1..Len(hQueries) :
           /\ k >= 2 => hQueries[k].limit = (IF k = 2 THEN 5 ELSE 3)
           /\ k < Len(hQueries) => ~StepYields(k)
    /\ (Len(hQueries) > 0 /\ StepYields(Len(hQueries))) =>
           hpc = "done" /\ hLabel # Null
    /\ (hpc = "done" /\ hLabel # Null) => StepYields(Len(hQueries))
    /\ (hpc = "done" /\ hLabel = Null) =>
           /\ hQueries = FullCascade(hKey)
           /\ \A k \in 1..Len(hQueries) : ~StepYields(k)

\* C20 witness: block 5: the exact parcel, the block and block 4 gave no
\* label, block 6 gave one
C20_Witness ==
    /\ hRun = 1
    /\ hpc = "done"
    /\ hKey.block = <<"0", "0", "0", "5">>
    /\ Len(hQueries) = 4
    /\ hQueries[3].block = <<"4">>
    /\ hQueries[4].block = <<"6">>
    /\ hLabel = Found(Soho)

-----------------------------------------------------------------------------
(* searchSales / searchNYCSales                                            *)

Undefined == [t |-> "undefined"]

\* s.replace(/'/g, "''")
RECURSIVE DoubleQuotes(_)
DoubleQuotes(s) ==
    IF Len(s) = 0 THEN <<>>
    ELSE (IF Head(s) = "'" THEN <<"'", "'">> ELSE <<Head(s)>>) \o DoubleQuotes(Tail(s))

\* const limit = Math.min(input.limit || 10, 50)
SalesLimit(inp) == Min(JsOr(inp.limit, Num(10)).v, 50)

\* the conditions searchNYCSales joins with " AND ", each as its column and
\* the text written for its value
SalesConditions(inp) ==
    <<[column |-> "sale_price >", value |-> <<"0">>]>>
    \o (IF inp.neighborhood # EmptyStr
        THEN <<[column |-> "neighborhood LIKE",
                value |-> <<"%">> \o ToUpperCase(DoubleQuotes(inp.neighborhood))
                          \o <<"%">>]>>
        ELSE <<>>)
    \o (IF inp.borough # EmptyStr /\ getBoroughCode(inp.borough) # <<>>
        THEN <<[column |-> "borough=", value |-> getBoroughCode(inp.borough)]>>
        ELSE <<>>)
    \o (IF inp.min_price # 0
        THEN <<[column |-> "sale_price >=", value |-> NatToString(inp.min_price)]>>
        ELSE <<>>)
    \o (IF inp.max_price # 0
        THEN <<[column |-> "sale_price <=", value |-> NatToString(inp.max_price)]>>
        ELSE <<>>)
    \o (IF inp.building_class # EmptyStr
        THEN <<[column |-> "building_class_at_time_of_sale LIKE",
                value |-> ToUpperCase(inp.building_class) \o <<"%">>]>>
        ELSE <<>>)
    \o (IF inp.date_from # EmptyStr
        THEN <<[column |-> "sale_date >=", value |-> inp.date_from]>> ELSE <<>>)
    \o (IF inp.date_to # EmptyStr
        THEN <<[column |-> "sale_date <=", value |-> inp.date_to]>> ELSE <<>>)
    \o (IF inp.whole_buildings_only # "false"
        THEN <<[column |-> "apartment_number IS NULL OR apartment_number =",
                value |-> EmptyStr]>>
        ELSE <<>>)

\* the body of the callback searchNYCSales maps over the sales: the value its
\* promise resolves to, given the sale and the outcome of its own fetch
EnrichSale(sale, outcome) ==
    IF outcome.kind = "throw" THEN sale
    ELSE LET pluto == IF outcome.kind = "row" THEN outcome.row ELSE Null
             units_total ==
                 IntOr(IntOr(IF pluto = Null THEN 0 ELSE pluto.units_total,
                             sale.units), 0)
             derived ==
                 [units_total |-> units_total,
                  price_per_unit |->
                      IF units_total > 0 /\ sale.sale_price > 0
                      THEN Num(RoundDiv(sale.sale_price, units_total)) ELSE Null,
                  price_per_sqft |->
                      IF sale.sqft > 0 /\ sale.sale_price > 0
                      THEN Num(RoundDiv(sale.sale_price, sale.sqft)) ELSE Null,
                  latitude |-> IF pluto = Null THEN Undefined ELSE pluto.latitude,
                  longitude |-> IF pluto = Null THEN Undefined ELSE pluto.longitude,
                  owner |-> IF pluto = Null THEN Undefined ELSE pluto.owner,
                  zoning |-> IF pluto = Null THEN Undefined ELSE pluto.zoning]
         IN [f \in DOMAIN sale \cup DOMAIN derived |->
                IF f \in DOMAIN derived THEN derived[f] ELSE sale[f]]

\* the first slot of the results array that holds no value yet
PlaceResultAtNextFree(slots, at, item) ==
    LET free == CHOOSE k \in 1..Len(slots) :
                    slots[k] = Null /\ \A j \in 1..(k - 1) : slots[j] # Null
    IN [slots EXCEPT ![free] = item]

\* Promise.all stores the value a promise resolves to at the index the promise
\* has in the array it was given
PlaceResult(slots, at, item) == [slots EXCEPT ![at] = item]

\* s.units_total || s.units || 0 of an entry of the enriched list
UnitsForFilter(entry) ==
    IntOr(IntOr(IF "units_total" \in DOMAIN entry THEN entry.units_total ELSE 0,
                entry.units), 0)

RECURSIVE KeepUnits(_, _, _)
KeepUnits(entries, lo, hi) ==
    IF Len(entries) = 0 THEN <<>>
    ELSE LET keep == /\ (lo # 0 => UnitsForFilter(Head(entries)) >= lo)
                     /\ (hi # 0 => UnitsForFilter(Head(entries)) <= hi)
         IN (IF keep THEN <<Head(entries)>> ELSE <<>>)
            \o KeepUnits(Tail(entries), lo, hi)

\* the value searchNYCSales returns
SalesResult(inp, entries) ==
    LET filtered == KeepUnits(entries, inp.min_units, inp.max_units)
    IN [kind |-> "sales", city |-> "nyc", count |-> Len(filtered), sales |-> filtered]

-----------------------------------------------------------------------------
(* Specification SpecSales: one call of searchSales; the per-sale fetches  *)
(* are all in flight at once and settle in any order                       *)

Pending == [kind |-> "pending"]

SalesInputs ==
    [city : {"nyc", "philadelphia"},
     neighborhood : {EmptyStr},
     borough : {Manhattan, UnknownBorough},
     min_price : {0},
     max_price : {0},
     building_class : {EmptyStr},
     date_from : {EmptyStr},
     date_to : {EmptyStr},
     whole_buildings_only : {"undefined"},
     min_units : {0, 6},
     max_units : {0},
     limit : {Null, Num(1)}]

\* rows of the sales ledger a search may return
SearchRows ==
    {[borough |-> <<"1">>, block |-> <<"1">>, lot |-> <<"2">>, address |-> "10 MAIN STREET",
      apartment_number |-> EmptyStr, sale_price |-> 900000, sale_date |-> "2024-03-01",
      building_class |-> ClassD4, neighborhood |-> Soho,
      units |-> 10, sqft |-> 10000, year_built |-> Num(1918)],
     [borough |-> <<"1">>, block |-> <<"7">>, lot |-> <<"3">>, address |-> "7 SIDE STREET",
      apartment_number |-> EmptyStr, sale_price |-> 500000, sale_date |-> "2023-01-15",
      building_class |-> ClassD1, neighborhood |-> Soho,
      units |-> 0, sqft |-> 0, year_built |-> Null],
     [borough |-> <<"1">>, block |-> <<"7">>, lot |-> <<"4">>, address |-> "9 SIDE STREET",
      apartment_number |-> EmptyStr, sale_price |-> 0, sale_date |-> "2022-11-02",
      building_class |-> ClassD4, neighborhood |-> Noho,
      units |-> 5, sqft |-> 4000, year_built |-> Num(1950)]}

\* parcel records getPropertyByBBL may return (the fields the callback reads)
SearchParcels ==
    {[units_total |-> 6, latitude |-> Num(40), longitude |-> Num(-74),
      owner |-> OwnerPrivate, zoning |-> <<"R", "6">>],
     [units_total |-> 0, latitude |-> Null, longitude |-> Null,
      owner |-> EmptyStr, zoning |-> EmptyStr]}

InitSales ==
    /\ ScoreIdle /\ RentIdle /\ TaxIdle /\ CompsIdle
    /\ AddrIdle /\ HoodIdle /\ ToolIdle
    /\ kpc = "start"
    /\ kInput \in SalesInputs
    /\ kWhere = Null
    /\ kSales = <<>>
    /\ kFetch = <<>>
    /\ kEnriched = <<>>
    /\ kOrder = <<>>
    /\ kResult = Null

\* searchSales up to the ledger query: the city check and the conditions
SalesStart ==
    /\ kpc = "start"
    /\ IF kInput.city = "nyc"
       THEN /\ kWhere' = SalesConditions(kInput)
            /\ kpc' = "query"
            /\ UNCHANGED kResult
       ELSE /\ kResult' = ErrorResult("Philadelphia support not yet implemented")
            /\ kpc' = "done"
            /\ UNCHANGED kWhere
    /\ UNCHANGED <<kInput, kSales, kFetch, kEnriched, kOrder>>
    /\ UNCHANGED <<scoreVars, rentVars, taxVars, compsVars,
                   addrVars, hoodVars, toolVars>>

\* querySales(where, limit) settles; sales.map starts one fetch per sale
SalesQuery ==
    /\ kpc = "query"
    /\ \/ /\ kpc' = "failed"
          /\ UNCHANGED <<kSales, kFetch, kEnriched>>
       \/ \E rows \in SeqsUpTo(SearchRows, Min(SalesLimit(kInput), MaxSales)) :
             /\ kSales' = rows
             /\ kFetch' = [k \in 1..Len(rows) |-> Pending]
             /\ kEnriched' = [k \in 1..Len(rows) |-> Null]
             /\ kpc' = "enrich"
    /\ UNCHANGED <<kInput, kWhere, kOrder, kResult>>
    /\ UNCHANGED <<scoreVars, rentVars, taxVars, compsVars,
                   addrVars, hoodVars, toolVars>>

\* one of the fetches in flight settles and its callback runs to its return
SalesFetchSettles ==
    /\ kpc = "enrich"
    /\ \E at \in 1..Len(kSales) :
        /\ kFetch[at] = Pending
        /\ \E o \in {Thrown, NotFound} \cup {Found(r) : r \in SearchParcels} :
            /\ kFetch' = [kFetch EXCEPT ![at] = o]
            /\ kEnriched' = PlaceResult(kEnriched, at, EnrichSale(kSales[at], o))
        /\ kOrder' = Append(kOrder, at)
    /\ UNCHANGED <<kpc, kInput, kWhere, kSales, kResult>>
    /\ UNCHANGED <<scoreVars, rentVars, taxVars, compsVars,
                   addrVars, hoodVars, toolVars>>

\* Promise.all resolves once every callback has returned; filter and return
SalesReturn ==
    /\ kpc = "enrich"
    /\ \A k \in 1..Len(kSales) : kFetch[k] # Pending
    /\ kResult' = SalesResult(kInput, kEnriched)
    /\ kpc' = "done"
    /\ UNCHANGED <<kInput, kWhere, kSales, kFetch, kEnriched, kOrder>>
    /\ UNCHANGED <<scoreVars, rentVars, taxVars, compsVars,
                   addrVars, hoodVars, toolVars>>

NextSales ==
    \/ SalesStart
    \/ SalesQuery
    \/ SalesFetchSettles
    \/ SalesReturn

SpecSales == InitSales /\ [][NextSales]_vars

\* search-sales and search-comps, the two operations that join sales with
\* parcel records
InitJoin == InitComps \/ InitSales

NextJoin == NextComps \/ NextSales

SpecJoin == InitJoin /\ [][NextJoin]_vars

ModeRows == AnswerGiven(hQueries[Len(hQueries)]).rows

\* how often a label occurs in the rows, and where it occurs first
OccurrencesIn(rows, label) ==
    Cardinality({k \in 1..Len(rows) : rows[k].neighborhood = label})
FirstIn(rows, label) ==
    CHOOSE k \in 1..Len(rows) :
        rows[k].neighborhood = label /\ \A j \in 1..(k - 1) : rows[j].neighborhood # label

\* C21: the label the block step or an adjacent-block step returns is a
\* non-empty label of the step's rows whose number of occurrences is maximal
\* among the non-empty labels, and of the labels with that count it is the
\* one that occurs first; empty labels are not counted.
C21_ModeFirstWinsTies ==
    (hpc = "done" /\ hLabel # Null /\ Len(hQueries) >= 2) =>
        LET rows == ModeRows
            winner == hLabel.row
            labels == {rows[k].neighborhood : k \in 1..Len(rows)} \ {EmptyStr}
        IN /\ winner \in labels
           /\ \A label \in labels :
                  /\ OccurrencesIn(rows, label) <= OccurrencesIn(rows, winner)
                  /\ OccurrencesIn(rows, label) = OccurrencesIn(rows, winner) =>
                         FirstIn(rows, winner) <= FirstIn(rows, label)

\* C21 witness: the block has the rows SOHO, NOHO, CHELSEA, CHELSEA, NOHO:
\* two labels tie with two occurrences each behind a label
\* that occurs once and first; the earlier of the two wins
C21_Witness ==
    /\ hpc = "done"
    /\ Len(hQueries) = 2
    /\ hNeighborhoods = <<Soho, Noho, Chelsea, Chelsea, Noho>>
    /\ hLabel = Found(Noho)

\* C22: the unit-count component of the returned score (the score less its
\* four other components) is round(20 * min(a,b) / max(a,b)) with a the
\* larger of the subject's residential units and total units and b the
\* candidate's unit count, and 0 when a or b is 0.
C22_UnitComponentUsesLarger ==
    spc = "returned" =>
        LET a == Max(sSubject.units, sSubject.units_total)
            b == sComp.units
            component ==
                sScore - NeighborhoodPoints(sSame, sAdj)
                       - ClassPoints(sSubject.building_class, sComp.building_class)
                       - YearPoints(sSubject.year_built, sComp.year_built)
                       - SizePoints(sSubject.building_area, sComp.sqft)
        IN component = IF a = 0 \/ b = 0 THEN 0
                       ELSE RoundDiv(20 * Min(a, b), Max(a, b))

\* the non-null values of a rate over a list of comps
KnownRates(list, rate) ==
    LET all == [k \in 1..Len(list) |-> list[k][rate]]
        known == SelectSeq(all, LAMBDA r : r # Null)
    IN [k \in 1..Len(known) |-> known[k].v]

\* an implied value is null exactly when the quantity is zero or the average
\* is null or zero, and the product otherwise
ImpliedAsStated(implied, quantity, average) ==
    IF quantity = 0 \/ average = Null \/ average = Num(0)
    THEN implied = Null
    ELSE implied = Num(quantity * average.v)

Noted(note) == \E k \in 1..Len(rInfo.notes) : rInfo.notes[k] = note

\* C24: no returned assessment has likely_stabilized = true together with
\* confidence = low or with the note that the year built could not be
\* determined.
C24_UncertaintyOnlyWhenNotLikely ==
    (rpc = "returned" /\ rInfo.likely_stabilized) =>
        /\ rInfo.confidence # "low"
        /\ ~Noted("year_unknown")

\* C25: for a non-housing-authority owner the two standard caveats are
\* present exactly when likely_stabilized = true; the after-1974 note only
\* when likely_stabilized = false, units >= 6 and the year built is known and
\* at least 1974; the below-threshold note only when likely_stabilized =
\* false and 0 < units < 6; and at most one of the three groups is present.
C25_GeneralNotesExclusive ==
    (rpc = "returned" /\ ~IsNYCHA(rParams.owner)) =>
        /\ Noted("deregulation") <=> rInfo.likely_stabilized
        /\ Noted("verify") <=> rInfo.likely_stabilized
        /\ Noted("after1974") =>
               /\ ~rInfo.likely_stabilized
               /\ rParams.units >= 6
               /\ rParams.year_built.t = "num"
               /\ rParams.year_built.v >= 1974
        /\ Noted("below6") =>
               /\ ~rInfo.likely_stabilized
               /\ rParams.units > 0 /\ rParams.units < 6
        /\ Cardinality({g \in {"deregulation", "after1974", "below6"} : Noted(g)}) <= 1
        /\ \A g \in {"deregulation", "verify", "after1974", "below6"} :
               Cardinality({k \in 1..Len(rInfo.notes) : rInfo.notes[k] = g}) <= 1

\* C25 witness: 8 units built in 2000, no tax benefit: only the after-1974
\* note
C25_Witness ==
    /\ rpc = "returned"
    /\ rParams.owner = OwnerPrivate
    /\ rParams.units = 8
    /\ rParams.year_built = Num(2000)
    /\ ~rInfo.likely_stabilized
    /\ rInfo.notes = <<"after1974">>

\* C29: for every input, likely_stabilized is true exactly when the reasons
\* list is non-empty; the reasons are a sublist of age/unit rule, 421a, J-51
\* in that order, each at most once; and confidence is medium only when the
\* age/unit rule is the only reason.
C29_ReasonsOrdered ==
    rpc = "returned" =>
        LET reasons == rInfo.stabilization_reasons
            rank(r) == CASE r = "pre1974" -> 1 [] r = "421a" -> 2 [] r = "j51" -> 3
                       [] OTHER -> 0
        IN /\ rInfo.likely_stabilized <=> (reasons # <<>>)
           /\ \A k \in 1..Len(reasons) : rank(reasons[k]) > 0
           /\ \A k \in 1..(Len(reasons) - 1) : rank(reasons[k]) < rank(reasons[k + 1])
           /\ rInfo.confidence = "medium" => reasons = <<"pre1974">>

\* C29 witness: the age/unit rule and both tax-benefit rules fired
C29_Witness ==
    /\ rpc = "returned"
    /\ rParams.owner = EmptyStr
    /\ rParams.year_built = Num(1973)
    /\ rParams.units = 6
    /\ rInfo.stabilization_reasons = <<"pre1974", "421a", "j51">>
    /\ rInfo.confidence = "high"
    /\ rInfo.likely_stabilized

\* C26: in search-sales a sale whose parcel fetch failed is still returned,
\* with price_per_unit and price_per_sqft computed from the sale record's own
\* units and square feet (a number when the divisor is positive, null
\* otherwise); no returned sale lacks the two fields.
C26_FailedFetchKeepsRates ==
    (kpc = "done" /\ kResult.kind = "sales") =>
        /\ \A k \in 1..Len(kResult.sales) :
               {"price_per_unit", "price_per_sqft"} \subseteq DOMAIN kResult.sales[k]
        /\ (kInput.min_units = 0 /\ kInput.max_units = 0) =>
               /\ Len(kResult.sales) = Len(kSales)
               /\ \A k \in 1..Len(kSales) :
                      kFetch[k].kind = "throw" =>
                          /\ kResult.sales[k].address = kSales[k].address
                          /\ kResult.sales[k].price_per_unit =
                                 (IF kSales[k].units > 0
                                  THEN Num(RoundDiv(kSales[k].sale_price, kSales[k].units))
                                  ELSE Null)
                          /\ kResult.sales[k].price_per_sqft =
                                 (IF kSales[k].sqft > 0
                                  THEN Num(RoundDiv(kSales[k].sale_price, kSales[k].sqft))
                                  ELSE Null)

\* C27: every BBL that get-property or get-tax-benefits sends to the
\* exemption and abatement registries has exactly 10 characters: 1 of borough
\* code, 5 of block and 4 of lot, whatever components the caller or the
\* parcel registry supplied.
C27_BBLTenCharacters ==
    \A k \in 1..Len(qRemote) :
        qRemote[k].call = "tax_benefits" => Len(qRemote[k].arg) = 10

-----------------------------------------------------------------------------
(* Specification SpecCalls: one invocation of search-comps, of the resolver *)
(* it calls or of the neighborhood cascade it calls, each run to its end    *)

InitCalls == InitComps \/ InitResolve \/ InitHood

NextCalls ==
    \/ NextComps
    \/ NextResolve
    \/ HoodExact
    \/ HoodBlock
    \/ HoodAdjacent

SpecCalls == InitCalls /\ [][NextCalls]_vars

\* how often searchComps has called a collaborator
CallsOf(name) == Cardinality({k \in 1..Len(remote) : remote[k] = name})

\* the remote calls issued so far are within the stated numbers, and no
\* query was issued twice
CallsBounded ==
    /\ Len(aQueries) <= 3
    /\ \A a, b \in 1..Len(aQueries) : a # b => aQueries[a] # aQueries[b]
    /\ Len(hQueries) <= 4
    /\ \A a, b \in 1..Len(hQueries) : a # b => hQueries[a] # hQueries[b]
    /\ CallsOf("parcel_by_address") <= 1
    /\ CallsOf("ledger_neighborhood") <= 1
    /\ CallsOf("ledger_candidates") = (IF pc = "enrich" \/ failedAt = "candidates"
                                          \/ Returned THEN 1 ELSE 0)
    /\ CallsOf("parcel_by_bbl") =
           Cardinality({p \in 1..Len(fetched) : fetched[p].kind # "skipped"})
    /\ Len(fetched) <= Len(sales)
    /\ Len(remote) <= 3 + Len(sales)
    /\ pc = "enrich" => i <= Len(sales) + 1

\* a function that has thrown or returned issues no further call
NoCallAfterEnd ==
    /\ apc \in {"done", "failed"} => aQueries' = aQueries
    /\ hpc \in {"done", "failed"} => hQueries' = hQueries
    /\ pc \in {"done", "failed"} => remote' = remote

\* the place of a program position in the order of the function's text
Phase(at) ==
    CASE at \in {"start", "query1", "exact"} -> 1
      [] at \in {"resolve", "query2", "block"} -> 2
      [] at \in {"neighborhood", "query3", "adjacent"} -> 3
      [] at = "query" -> 4
      [] at = "enrich" -> 5
      [] at \in {"done", "failed"} -> 6
      [] OTHER -> 0

\* every step moves its function forward in its text, or to the next element
\* of the one loop it is in: no step goes back to an earlier await
StepAdvances ==
    \/ Phase(pc') > Phase(pc)
    \/ pc = "enrich" /\ pc' = "enrich" /\ i' = i + 1
    \/ Phase(apc') > Phase(apc)
    \/ Phase(hpc') > Phase(hpc)
    \/ hpc = "adjacent" /\ hpc' = "adjacent" /\ Len(hAdjacent') < Len(hAdjacent)

\* C28: no remote call is retried: the resolver issues at most 3 parcel
\* queries and the cascade at most 4 ledger queries, none of them twice;
\* searchComps calls the resolver and the cascade at most once each, issues
\* exactly 1 candidate query once it gets there and exactly one parcel fetch
\* per candidate row it does not skip; nothing is issued after the function
\* has thrown or returned; and every step moves forward through the
\* function or its bounded loop, so an invocation ends after a bounded number
\* of remote calls.
C28_BoundedCallsNoRetry ==
    /\ []CallsBounded
    /\ [][NoCallAfterEnd /\ StepAdvances]_vars

\* C28 witness: a returned search with two candidate rows: the fetch for the
\* first row failed and was not repeated, the next call is the fetch for the
\* second row
C28_Witness ==
    /\ Returned
    /\ Len(sales) = 2
    /\ fetched[1].kind = "throw"
    /\ fetched[2].kind = "row"
    /\ remote = <<"parcel_by_address", "ledger_neighborhood", "ledger_candidates",
                  "parcel_by_bbl", "parcel_by_bbl">>

\* C30: every ledger query of the cascade names the borough by the same
\* numeric borough code (one of 1..5), and the exact-parcel query and the
\* same-block query name the subject's block in the same form.
C30_LedgerQueriesAgree ==
    /\ \A k \in 1..Len(hQueries) :
           hQueries[k].borough \in {<<"1">>, <<"2">>, <<"3">>, <<"4">>, <<"5">>}
    /\ \A a, b \in 1..Len(hQueries) : hQueries[a].borough = hQueries[b].borough
    /\ Len(hQueries) >= 2 => hQueries[1].block = hQueries[2].block

====
